---- MODULE Spec2Model ----
(***************************************************************************)
(* State-reconciliation engine of the bison carrying-capacity simulator:   *)
(* the land-cover dataset (data/table.py), the two-tier slider hierarchy   *)
(* (data/sliders.py), the scenario store and preset transforms             *)
(* (callbacks/scenario.py) and the Dash callbacks that route the events    *)
(* (callbacks/table_view.py).                                              *)
(*                                                                         *)
(* Numbers.  The code computes in IEEE doubles; the model computes in      *)
(* exact rationals <<n, d>> (d > 0, lowest terms), so the code's           *)
(* "equal within 1e-6" is exact equality here.  The non-finite doubles     *)
(* are kept: NaN is <<0, 0>> and an infinity is <<1, 0>> or <<-1, 0>>.     *)
(* A blank table cell (None or "") is NaN, as pandas reads it.             *)
(***************************************************************************)
EXTENDS Integers, Sequences, FiniteSets, TLC

VARIABLES
    table,                    \* "table".data: the rows of BisonDataFrame.df
    previous_table_data,      \* dcc.Store "previous-table-data"
    minor_values,             \* value of every {"type": "slider"} component
    major_values,             \* value of every {"type": "major-slider"}
    minor_max,                \* max of the minor sliders
    major_max,                \* max of the major sliders
    is_proportional_checked,  \* "proportional-checkbox".value
    mode_change_in_progress,  \* dcc.Store "mode-change-in-progress"
    model_type,               \* "model-dropdown".value
    scenarios_table,          \* "scenarios-table".data (display rows)
    scenarios_storage,        \* dcc.Store "scenarios-storage"
    selected_rows,            \* "scenarios-table".selected_rows
    load_clicks,              \* "load-scenario-button".n_clicks
    pending,                  \* the trigger update_application_state is to run on
    raised,                   \* the last callback ended in an exception
    events,                   \* number of user events so far
    last                      \* the last operation and its inputs

vars == <<table, previous_table_data, minor_values, major_values, minor_max,
          major_max, is_proportional_checked, mode_change_in_progress,
          model_type, scenarios_table, scenarios_storage, selected_rows,
          load_clicks, pending, raised, events, last>>

----------------------------------------------------------------------------
(* Bounds of the exploration. *)

\* Largest denominator of an area the exploration keeps.
MaxDen == 2
\* Largest area (km2) of one row the exploration keeps.
MaxArea == 40
\* Largest number of entries of the scenario store the exploration keeps.
MaxScenarios == 2
\* Largest number of user events of one session the exploration follows.
MaxEvents == 3

----------------------------------------------------------------------------
(* Double arithmetic, as exact rationals with NaN and the infinities. *)

NaN == <<0, 0>>

Abs(n) == IF n < 0 THEN -n ELSE n

RECURSIVE GCD(_, _)
GCD(a, b) == IF b = 0 THEN a ELSE GCD(b, a % b)

\* The double n/d, d # 0, in lowest terms with a positive denominator.
Norm(n, d) ==
    LET g == GCD(Abs(n), Abs(d))
        s == IF d < 0 THEN -1 ELSE 1
    IN  <<(s * n) \div g, (s * d) \div g>>

R(n) == <<n, 1>>
Zero == <<0, 1>>
IsFinite(x) == x[2] # 0
IsNaN(x) == x = NaN

RAdd(a, b) ==
    IF ~IsFinite(a) \/ ~IsFinite(b) THEN NaN
    ELSE Norm(a[1] * b[2] + b[1] * a[2], a[2] * b[2])

RSub(a, b) ==
    IF ~IsFinite(a) \/ ~IsFinite(b) THEN NaN
    ELSE Norm(a[1] * b[2] - b[1] * a[2], a[2] * b[2])

RMul(a, b) ==
    IF ~IsFinite(a) \/ ~IsFinite(b) THEN NaN
    ELSE Norm(a[1] * b[1], a[2] * b[2])

\* numpy's true division: 0/0 is nan and x/0 an infinity, with a warning only.
RDiv(a, b) ==
    IF ~IsFinite(a) \/ ~IsFinite(b) THEN NaN
    ELSE IF b[1] = 0 THEN (IF a[1] = 0 THEN NaN
                           ELSE IF a[1] > 0 THEN <<1, 0>> ELSE <<-1, 0>>)
    ELSE Norm(a[1] * b[2], a[2] * b[1])

\* Every ordered comparison with a NaN is false.
RLt(a, b) == IsFinite(a) /\ IsFinite(b) /\ a[1] * b[2] < b[1] * a[2]
RLe(a, b) == IsFinite(a) /\ IsFinite(b) /\ a[1] * b[2] <= b[1] * a[2]
RGt(a, b) == RLt(b, a)
\* != : a NaN differs from everything, itself included.
RNe(a, b) == IsNaN(a) \/ IsNaN(b) \/ a # b
RAbs(a) == IF IsFinite(a) THEN <<Abs(a[1]), a[2]>> ELSE a

\* Python's builtin sum(): a NaN operand makes the sum NaN.
RECURSIVE PySum(_)
PySum(s) == IF s = <<>> THEN Zero ELSE RAdd(Head(s), PySum(Tail(s)))

\* pandas' Series.sum(): skipna=True leaves the NaN cells out.
RECURSIVE PdSum(_)
PdSum(s) ==
    IF s = <<>> THEN Zero
    ELSE IF IsNaN(Head(s)) THEN PdSum(Tail(s))
    ELSE RAdd(Head(s), PdSum(Tail(s)))

\* Python's max(0, x): x only when x > 0 (so 0 for a NaN).
PyMax0(x) == IF RGt(x, Zero) THEN x ELSE Zero

\* The cells of s at the indices of S, in row order.
RECURSIVE AtIdx(_, _, _)
AtIdx(s, S, i) ==
    IF i > Len(s) THEN <<>>
    ELSE (IF i \in S THEN <<s[i]>> ELSE <<>>) \o AtIdx(s, S, i + 1)

----------------------------------------------------------------------------
(* BisonDataFrame (data/table.py).  A dataframe is the sequence of its row *)
(* records; a column is the sequence of one field.                         *)

Area(df) == [i \in DOMAIN df |-> df[i].Area_km2]
Pct(df) == [i \in DOMAIN df |-> df[i].Area_percentage]
BisonCur(df) == [i \in DOMAIN df |-> df[i].Maximum_Bison_Supported]
BisonNM(df) == [i \in DOMAIN df |-> df[i].Maximum_Bison_Supported_NM]
BisonBR(df) == [i \in DOMAIN df |-> df[i].Maximum_Bison_Supported_BR]

MINIMUM_CHANGE_THRESHOLD == <<1, 1000>>
Hundred == R(100)

\* Variant: the share is left a fraction (the "* 100" is missing).
_update_percentages_fraction(df) ==
    LET total == PdSum(Area(df))
    IN  [i \in DOMAIN df |->
            [df[i] EXCEPT !.Area_percentage =
                IF RLe(total, Zero) THEN Zero
                ELSE RDiv(df[i].Area_km2, total)]]

_update_percentages(df) ==
    LET total == PdSum(Area(df))
    IN  [i \in DOMAIN df |->
            [df[i] EXCEPT !.Area_percentage =
                IF RLe(total, Zero) THEN Zero
                ELSE RMul(RDiv(df[i].Area_km2, total), Hundred)]]

\* Variant: the percentages are renormalised to their own sum, so that the
\* total area is kept whatever they sum to.
_update_areas_from_percentages_renormalised(df) ==
    LET total == PdSum(Area(df))
        pct_sum == PdSum(Pct(df))
    IN  [i \in DOMAIN df |->
            [df[i] EXCEPT !.Area_km2 =
                IF RGt(pct_sum, Zero)
                THEN RMul(RDiv(df[i].Area_percentage, pct_sum), total)
                ELSE Zero]]

_update_areas_from_percentages(df) ==
    LET total == PdSum(Area(df))
    IN  [i \in DOMAIN df |->
            [df[i] EXCEPT !.Area_km2 =
                RMul(RDiv(df[i].Area_percentage, Hundred), total)]]

_update_bison_supported(df) ==
    [i \in DOMAIN df |->
        [df[i] EXCEPT
            !.Maximum_Bison_Supported =
                RMul(df[i].Area_km2, df[i].Mean_Bison_Density),
            !.Maximum_Bison_Supported_NM =
                RMul(df[i].Area_km2, df[i].Mean_Bison_Density_NM),
            !.Maximum_Bison_Supported_BR =
                RMul(df[i].Area_km2, df[i].Mean_Bison_Density_BR)]]

SetArea(df, areas) ==
    [i \in DOMAIN df |-> [df[i] EXCEPT !.Area_km2 = areas[i]]]

SetPct(df, values) ==
    [i \in DOMAIN df |-> [df[i] EXCEPT !.Area_percentage = values[i]]]

update_areas(df, areas) ==
    _update_bison_supported(_update_percentages(SetArea(df, areas)))

\* Variant: every row, the fixed ones included, is rescaled to a sum of 100.
_adjust_percentages_rescale_all(df, fixed_indices) ==
    LET percentages == Pct(df)
        all_sum == PdSum(percentages)
    IN  SetPct(df, [i \in DOMAIN df |->
                       IF RGt(all_sum, Zero)
                       THEN RMul(percentages[i], RDiv(Hundred, all_sum))
                       ELSE percentages[i]])

\* Variant: the remaining budget is not clamped at 0.
_adjust_percentages_unclamped(df, fixed_indices) ==
    LET percentages == Pct(df)
        fixed_sum == PySum(AtIdx(percentages, fixed_indices, 1))
        remaining == RSub(Hundred, fixed_sum)
        adjustable_indices == DOMAIN df \ fixed_indices
        current_adjustable_sum ==
            PdSum(AtIdx(percentages, adjustable_indices, 1))
        adjusted(i) ==
            IF i \in fixed_indices THEN percentages[i]
            ELSE IF RGt(current_adjustable_sum, Zero)
                 THEN RMul(percentages[i],
                           RDiv(remaining, current_adjustable_sum))
            ELSE IF RGt(remaining, Zero)
                 THEN RDiv(remaining, R(Cardinality(adjustable_indices)))
            ELSE percentages[i]
    IN  SetPct(df, [i \in DOMAIN df |-> adjusted(i)])

\* Variant: the non-fixed rows always share the remaining budget evenly.
_adjust_percentages_even_share(df, fixed_indices) ==
    LET percentages == Pct(df)
        fixed_sum == PySum(AtIdx(percentages, fixed_indices, 1))
        remaining == PyMax0(RSub(Hundred, fixed_sum))
        adjustable_indices == DOMAIN df \ fixed_indices
    IN  SetPct(df, [i \in DOMAIN df |->
                       IF i \in fixed_indices THEN percentages[i]
                       ELSE RDiv(remaining,
                                 R(Cardinality(adjustable_indices)))])

_adjust_percentages_with_fixed_indices(df, fixed_indices) ==
    LET percentages == Pct(df)
        fixed_sum == PySum(AtIdx(percentages, fixed_indices, 1))
        remaining == PyMax0(RSub(Hundred, fixed_sum))
        adjustable_indices == DOMAIN df \ fixed_indices
        current_adjustable_sum ==
            PdSum(AtIdx(percentages, adjustable_indices, 1))
        adjusted(i) ==
            IF i \in fixed_indices THEN percentages[i]
            ELSE IF RGt(current_adjustable_sum, Zero)
                 THEN RMul(percentages[i],
                           RDiv(remaining, current_adjustable_sum))
            ELSE IF RGt(remaining, Zero)
                 THEN RDiv(remaining, R(Cardinality(adjustable_indices)))
            ELSE percentages[i]
    IN  SetPct(df, [i \in DOMAIN df |-> adjusted(i)])

\* values is None in the code when no percentages are passed.
None == <<>>

update_percentages(df, fixed_indices, values) ==
    LET df1 == IF values # None THEN SetPct(df, values) ELSE df
    IN  IF fixed_indices = {}
        THEN _update_bison_supported(_update_areas_from_percentages(df1))
        ELSE _update_bison_supported(_update_areas_from_percentages(
                 _adjust_percentages_with_fixed_indices(df1, fixed_indices)))

update_densities(df, densities) ==
    _update_bison_supported(
        [i \in DOMAIN df |-> [df[i] EXCEPT !.Mean_Bison_Density = densities[i]]])

update_from_scenario(data, model) ==
    _update_bison_supported(
        [i \in DOMAIN data |->
            [data[i] EXCEPT !.Mean_Bison_Density =
                IF model = "Nutritional Maximum"
                THEN data[i].Mean_Bison_Density_NM
                ELSE data[i].Mean_Bison_Density_BR]])

\* isnull() | == "": the rows whose cell is blank.
NullIdx(col) == {i \in DOMAIN col : IsNaN(col[i])}
\* fillna(0).replace("", 0)
FillNa(col) == [i \in DOMAIN col |-> IF IsNaN(col[i]) THEN Zero ELSE col[i]]
\* a != b, cell by cell: the rows where the two columns differ.
DiffIdx(a, b) == {i \in DOMAIN a : RNe(a[i], b[i])}

\* Variant: a blank percentage cell is looked for before a blank area cell.
_identify_changed_indices_pct_first(current_df, previous_df, null_area_indices, null_pct_indices) ==
    IF null_pct_indices # {}
    THEN [area_changed |-> FALSE, percentage_changed |-> TRUE,
          indices |-> null_pct_indices]
    ELSE IF null_area_indices # {}
    THEN [area_changed |-> TRUE, percentage_changed |-> FALSE,
          indices |-> null_area_indices]
    ELSE LET area_diff == DiffIdx(Area(current_df), Area(previous_df))
             pct_diff == DiffIdx(Pct(current_df), Pct(previous_df))
         IN  IF area_diff # {}
             THEN [area_changed |-> TRUE, percentage_changed |-> FALSE,
                   indices |-> area_diff]
             ELSE IF pct_diff # {}
             THEN [area_changed |-> FALSE, percentage_changed |-> TRUE,
                   indices |-> pct_diff]
             ELSE [area_changed |-> FALSE, percentage_changed |-> FALSE,
                   indices |-> {}]

_identify_changed_indices(current_df, previous_df, null_area_indices, null_pct_indices) ==
    IF null_area_indices # {}
    THEN [area_changed |-> TRUE, percentage_changed |-> FALSE,
          indices |-> null_area_indices]
    ELSE IF null_pct_indices # {}
    THEN [area_changed |-> FALSE, percentage_changed |-> TRUE,
          indices |-> null_pct_indices]
    ELSE LET area_diff == DiffIdx(Area(current_df), Area(previous_df))
             pct_diff == DiffIdx(Pct(current_df), Pct(previous_df))
         IN  IF area_diff # {}
             THEN [area_changed |-> TRUE, percentage_changed |-> FALSE,
                   indices |-> area_diff]
             ELSE IF pct_diff # {}
             THEN [area_changed |-> FALSE, percentage_changed |-> TRUE,
                   indices |-> pct_diff]
             ELSE [area_changed |-> FALSE, percentage_changed |-> FALSE,
                   indices |-> {}]

\* Variant: a percentage edit is applied with no row fixed.
update_from_table_no_fixed(df, current_data, previous_data) ==
    IF previous_data = <<>> \/ current_data = <<>> THEN df
    ELSE
        LET null_area_indices == NullIdx(Area(current_data))
            null_pct_indices == NullIdx(Pct(current_data))
            current_df == SetPct(SetArea(current_data,
                                         FillNa(Area(current_data))),
                                 FillNa(Pct(current_data)))
            changed_indices ==
                _identify_changed_indices(current_df, previous_data,
                                          null_area_indices, null_pct_indices)
        IN  IF changed_indices.indices = {} THEN df
            ELSE IF changed_indices.area_changed
            THEN update_areas(df, Area(current_df))
            ELSE IF changed_indices.percentage_changed
            THEN update_percentages(df, {}, Pct(current_df))
            ELSE df

update_from_table(df, current_data, previous_data) ==
    IF previous_data = <<>> \/ current_data = <<>> THEN df
    ELSE
        LET null_area_indices == NullIdx(Area(current_data))
            null_pct_indices == NullIdx(Pct(current_data))
            current_df == SetPct(SetArea(current_data,
                                         FillNa(Area(current_data))),
                                 FillNa(Pct(current_data)))
            changed_indices ==
                _identify_changed_indices(current_df, previous_data,
                                          null_area_indices, null_pct_indices)
        IN  IF changed_indices.indices = {} THEN df
            ELSE IF changed_indices.area_changed
            THEN update_areas(df, Area(current_df))
            ELSE IF changed_indices.percentage_changed
            THEN update_percentages(df, changed_indices.indices,
                                    Pct(current_df))
            ELSE df

\* Variant: a change below the threshold is kept as it is.
changes_where_unsnapped(current, old) ==
    IF RNe(old, Zero) THEN RDiv(RSub(current, old), old) ELSE Zero

\* np.where(old != 0, (current - old) / old, 0), then
\* np.where(np.abs(changes) < MINIMUM_CHANGE_THRESHOLD, 0.0, changes).
changes_where(current, old) ==
    LET changes == IF RNe(old, Zero) THEN RDiv(RSub(current, old), old)
                   ELSE Zero
    IN  IF RLt(RAbs(changes), MINIMUM_CHANGE_THRESHOLD) THEN Zero
        ELSE changes

ModelColumn(df, model) ==
    IF model = "Nutritional Maximum" THEN BisonNM(df) ELSE BisonBR(df)

calculate_changes_from_scenario(df, stored_scenarios, model) ==
    IF stored_scenarios = <<>> THEN df
    ELSE
        LET current_values == ModelColumn(df, model)
            old_prev_values ==
                ModelColumn(stored_scenarios[Len(stored_scenarios)].data,
                            model)
            old_first_values == ModelColumn(stored_scenarios[1].data, model)
        IN  [i \in DOMAIN df |->
                [df[i] EXCEPT
                    !.Change_From_Previous =
                        changes_where(current_values[i], old_prev_values[i]),
                    !.Change_From_First =
                        changes_where(current_values[i],
                                      old_first_values[i])]]

total_area(df) == PdSum(Area(df))
total_bison(df) == PdSum(BisonCur(df))

----------------------------------------------------------------------------
(* The canonical Present-Day table and the static catalogue                *)
(* (data/constants.py: create_initial_dataframe, SLIDER_MAX_VALUES).       *)

Row(major, minor, area, nm, br) ==
    [Land_Cover_Major_Class |-> major, Land_Cover_Minor_Class |-> minor,
     Area_km2 |-> R(area), Area_percentage |-> Zero,
     Mean_Bison_Density |-> R(nm), Mean_Bison_Density_NM |-> R(nm),
     Mean_Bison_Density_BR |-> R(br),
     Maximum_Bison_Supported |-> Zero, Maximum_Bison_Supported_NM |-> Zero,
     Maximum_Bison_Supported_BR |-> Zero,
     Change_From_Previous |-> Zero, Change_From_First |-> Zero]

create_initial_dataframe ==
    LET rows == << Row("Marsh", "Meadow", 20, 6, 2),
                   Row("Upland", "Deciduous", 10, 4, 2),
                   Row("Upland", "Conifer", 10, 2, 1) >>
    IN  update_areas(rows, Area(rows))

Rows == DOMAIN create_initial_dataframe

----------------------------------------------------------------------------
(* Scenario snapshots (callbacks/scenario.py). *)

calculate_percentage_change(new_value, old_value) ==
    IF old_value = Zero THEN Zero
    ELSE LET change == RDiv(RSub(new_value, old_value), old_value)
         IN  IF RLt(RAbs(change), <<1, 1000>>) THEN Zero ELSE change

\* Variant: the first scenario is taken to be the previous one.
_process_scenario_changes_first_is_previous(existing_scenarios, total_bison_val, total_bison_nm, total_bison_br) ==
    LET prev_scenario == existing_scenarios[Len(existing_scenarios)]
    IN  [change_from_previous |->
             calculate_percentage_change(total_bison_val,
                                         prev_scenario.total_bison),
         change_from_first |->
             calculate_percentage_change(total_bison_val,
                                         prev_scenario.total_bison),
         change_from_previous_nm |->
             calculate_percentage_change(total_bison_nm,
                                         prev_scenario.total_bison_NM),
         change_from_first_nm |->
             calculate_percentage_change(total_bison_nm,
                                         prev_scenario.total_bison_NM),
         change_from_previous_br |->
             calculate_percentage_change(total_bison_br,
                                         prev_scenario.total_bison_BR),
         change_from_first_br |->
             calculate_percentage_change(total_bison_br,
                                         prev_scenario.total_bison_BR)]

_process_scenario_changes(existing_scenarios, total_bison_val, total_bison_nm, total_bison_br) ==
    LET first_scenario == existing_scenarios[1]
        prev_scenario == existing_scenarios[Len(existing_scenarios)]
    IN  [change_from_previous |->
             calculate_percentage_change(total_bison_val,
                                         prev_scenario.total_bison),
         change_from_first |->
             calculate_percentage_change(total_bison_val,
                                         first_scenario.total_bison),
         change_from_previous_nm |->
             calculate_percentage_change(total_bison_nm,
                                         prev_scenario.total_bison_NM),
         change_from_first_nm |->
             calculate_percentage_change(total_bison_nm,
                                         first_scenario.total_bison_NM),
         change_from_previous_br |->
             calculate_percentage_change(total_bison_br,
                                         prev_scenario.total_bison_BR),
         change_from_first_br |->
             calculate_percentage_change(total_bison_br,
                                         first_scenario.total_bison_BR)]

\* The snapshot record, from the changes on.
_new_scenario(existing_scenarios, current_data, changes) ==
    LET current_is_nm ==
            \A i \in DOMAIN current_data :
                current_data[i].Mean_Bison_Density
                    = current_data[i].Mean_Bison_Density_NM
    IN  [description |-> <<"Scenario", Len(existing_scenarios) + 1>>,
         total_area |-> PdSum(Area(current_data)),
         total_bison |-> PdSum(BisonCur(current_data)),
         change_from_previous |->
             IF existing_scenarios = <<>> THEN Zero
             ELSE IF current_is_nm THEN changes.change_from_previous_nm
             ELSE changes.change_from_previous_br,
         change_from_first |->
             IF existing_scenarios = <<>> THEN Zero
             ELSE IF current_is_nm THEN changes.change_from_first_nm
             ELSE changes.change_from_first_br,
         total_bison_NM |-> PdSum(BisonNM(current_data)),
         total_bison_BR |-> PdSum(BisonBR(current_data)),
         change_from_previous_NM |-> changes.change_from_previous_nm,
         change_from_previous_BR |-> changes.change_from_previous_br,
         change_from_first_NM |-> changes.change_from_first_nm,
         change_from_first_BR |-> changes.change_from_first_br,
         data |-> current_data]

\* The pair (new_scenario_display, new_scenario_full) as one record: the
\* display row is the record without its data field.
update_scenarios_data(existing_scenarios, current_data) ==
    _new_scenario(existing_scenarios, current_data,
        IF existing_scenarios = <<>>
        THEN [change_from_previous |-> Zero, change_from_first |-> Zero,
              change_from_previous_nm |-> Zero,
              change_from_first_nm |-> Zero,
              change_from_previous_br |-> Zero,
              change_from_first_br |-> Zero]
        ELSE _process_scenario_changes(existing_scenarios,
                 PdSum(BisonCur(current_data)), PdSum(BisonNM(current_data)),
                 PdSum(BisonBR(current_data))))

\* The display row of a snapshot: every field but the row data.
Display(full) ==
    [f \in DOMAIN full \ {"data"} |-> full[f]]

----------------------------------------------------------------------------
(* SliderValues and SliderState (data/sliders.py).  The layout builds one  *)
(* major slider per major class of the colour catalogue and one minor      *)
(* slider per row of that class (components/controls.py); the canonical    *)
(* table lists its rows in that same order, so minor slider i is row i.    *)
(* A preserve map is the pair of its minor entries and its major entries.  *)

PERCENTAGE_MODE_MAX == 100
SCALING_MARGIN == <<11, 10>>
MAX_THRESHOLD == <<4, 5>>
SLIDER_MAX_VALUES == [major_sliders |-> 100, minor_sliders |-> 100]
LAND_COVER_COLORS == <<"Marsh", "Upland", "Swamp", "Fen", "Bog">>

\* The major sliders of the layout, those of a class with rows.
major_ids ==
    LET present(c) ==
            \E i \in Rows :
                create_initial_dataframe[i].Land_Cover_Major_Class = c
    IN  SelectSeq(LAND_COVER_COLORS, present)

Majors == DOMAIN major_ids

\* self.major[m]["minor_classes"]
minor_classes_of(m) ==
    {i \in Rows :
        create_initial_dataframe[i].Land_Cover_Major_Class = major_ids[m]}

\* self.minor[i]["major_class"]
major_class_of(i) ==
    CHOOSE m \in Majors : i \in minor_classes_of(m)

\* Python's max() of a sequence: an element replaces the running maximum
\* only when it compares greater, so a NaN is kept or skipped by position.
RECURSIVE PyMaxFrom(_, _)
PyMaxFrom(cur, s) ==
    IF s = <<>> THEN cur
    ELSE PyMaxFrom(IF RGt(Head(s), cur) THEN Head(s) ELSE cur, Tail(s))

PyMax(s) == PyMaxFrom(Head(s), Tail(s))

\* math.ceil(q) * 100 of a finite q.
CeilTimes100(q) ==
    100 * (IF q[1] >= 0 THEN (q[1] + q[2] - 1) \div q[2]
           ELSE -((-q[1]) \div q[2]))

\* math.ceil(x * SCALING_MARGIN / 100) * 100 of a finite x.
NeededMax(x) == CeilTimes100(RDiv(RMul(x, SCALING_MARGIN), Hundred))

NoPreserve == [minor |-> <<>>, major |-> <<>>]

SliderState(bison_data, minor, major, is_percentage_mode) ==
    [df |-> bison_data, minor |-> minor, major |-> major,
     pct |-> is_percentage_mode,
     major_max |-> SLIDER_MAX_VALUES.major_sliders,
     minor_max |-> SLIDER_MAX_VALUES.minor_sliders,
     err |-> FALSE]

_update_major_totals(minor) ==
    [m \in Majors |-> PySum(AtIdx(minor, minor_classes_of(m), 1))]

sync(st, preserve_values) ==
    LET df_values == IF st.pct THEN Pct(st.df) ELSE Area(st.df)
        minor == [i \in Rows |->
                     IF i \notin DOMAIN preserve_values.minor
                     THEN df_values[i]
                     ELSE preserve_values.minor[i]]
        totals == _update_major_totals(minor)
    IN  [st EXCEPT
            !.minor = minor,
            !.major = [m \in Majors |->
                          IF m \in DOMAIN preserve_values.major
                          THEN preserve_values.major[m]
                          ELSE totals[m]]]

\* Variant: no even share when the current values sum to nothing.
_distribute_values_proportional_only(st, total_value, minor_classes) ==
    LET current_sum == PySum(AtIdx(st.minor, minor_classes, 1))
    IN  [i \in minor_classes |->
            IF RGt(current_sum, Zero)
            THEN RMul(st.minor[i], RDiv(total_value, current_sum))
            ELSE Zero]

\* The new values of the minor classes of one major slider.
_distribute_values(st, total_value, minor_classes) ==
    LET current_sum == PySum(AtIdx(st.minor, minor_classes, 1))
    IN  [i \in minor_classes |->
            IF RGt(current_sum, Zero)
            THEN RMul(st.minor[i], RDiv(total_value, current_sum))
            ELSE IF RGt(total_value, Zero)
            THEN RDiv(total_value, R(Cardinality(minor_classes)))
            ELSE Zero]

\* update_maximum_values, from the needed maxima on: the state with its
\* maxima grown, and the value returned.
\* Variant: the maxima follow the needed maxima down as well as up.
_grow_maximum_values_tracks(st, needed_minor_max, needed_major_max) ==
    [st |-> [st EXCEPT !.minor_max = needed_minor_max,
                       !.major_max = needed_major_max],
     changed |-> \/ needed_minor_max # st.minor_max
                 \/ needed_major_max # st.major_max]

_grow_maximum_values(st, needed_minor_max, needed_major_max) ==
    [st |-> [st EXCEPT
                !.minor_max = IF needed_minor_max > st.minor_max
                              THEN needed_minor_max ELSE st.minor_max,
                !.major_max = IF needed_major_max > st.major_max
                              THEN needed_major_max ELSE st.major_max],
     changed |-> \/ needed_minor_max > st.minor_max
                 \/ needed_major_max > st.major_max]

\* update_maximum_values in absolute mode, from the current maxima on.
\* math.ceil raises on a NaN or an infinity.
_needed_maximum_values(st, current_max_minor, current_max_major) ==
    IF ~IsFinite(current_max_minor) \/ ~IsFinite(current_max_major)
    THEN [st |-> [st EXCEPT !.err = TRUE], changed |-> FALSE]
    ELSE _grow_maximum_values(st, NeededMax(current_max_minor),
                              NeededMax(current_max_major))

update_maximum_values(st) ==
    IF st.pct
    THEN [st |-> [st EXCEPT !.major_max = PERCENTAGE_MODE_MAX,
                            !.minor_max = PERCENTAGE_MODE_MAX],
          changed |-> FALSE]
    ELSE _needed_maximum_values(st, PyMax(st.minor), PyMax(st.major))

\* Variant: the slider values are reprojected with no row held fixed.
_update_percentage_mode_no_fixed(st, minor_classes, preserve_map) ==
    sync([st EXCEPT !.df = update_percentages(st.df, {}, st.minor)],
         preserve_map)

_update_percentage_mode(st, minor_classes, preserve_map) ==
    LET indices == minor_classes
        all_values == st.minor
    IN  sync([st EXCEPT !.df = update_percentages(st.df, indices, all_values)],
             preserve_map)

_update_absolute_values(st, minor_classes, values_dict) ==
    [st EXCEPT !.df =
        _update_bison_supported(
            [i \in DOMAIN st.df |->
                IF i \in minor_classes
                THEN [st.df[i] EXCEPT !.Area_km2 = values_dict[i]]
                ELSE st.df[i]])]

_sync_specific(st, minor_classes, major_classes, preserve_values) ==
    LET col == IF st.pct THEN Pct(st.df) ELSE Area(st.df)
        minor == [i \in Rows |->
                     IF i \in minor_classes
                        /\ i \notin DOMAIN preserve_values.minor
                     THEN col[i] ELSE st.minor[i]]
    IN  [st EXCEPT
            !.minor = minor,
            !.major = [m \in Majors |->
                          IF m \notin major_classes THEN st.major[m]
                          ELSE IF m \notin DOMAIN preserve_values.major
                          THEN PySum(AtIdx(minor, minor_classes_of(m), 1))
                          ELSE preserve_values.major[m]]]

\* Variant: the majors of the edited minors keep the totals they had.
_update_absolute_majors_stale(st1, minor_classes, modified_major_classes, preserve_map) ==
    _sync_specific(st1, minor_classes, {}, preserve_map)

\* _update_absolute_mode, after _update_absolute_values.
_update_absolute_majors(st1, minor_classes, modified_major_classes, preserve_map) ==
    LET major == [m \in Majors |->
                     IF m \in modified_major_classes
                     THEN PySum(AtIdx(st1.minor, minor_classes_of(m), 1))
                     ELSE st1.major[m]]
        preserve ==
            [preserve_map EXCEPT
                !.major = [m \in modified_major_classes |-> major[m]]]
    IN  _sync_specific([st1 EXCEPT !.major = major], minor_classes,
                       modified_major_classes, preserve)

_update_absolute_mode(st, minor_classes, modified_major_classes, preserve_map) ==
    _update_absolute_majors(
        _update_absolute_values(st, minor_classes, preserve_map.minor),
        minor_classes, modified_major_classes, preserve_map)

\* update_from_minor_change, after the maxima were looked at.
_apply_minor_change(st1, minor_classes, original_values) ==
    LET modified_major_classes == {major_class_of(i) : i \in minor_classes}
        preserve_map == [minor |-> original_values, major |-> <<>>]
    IN  IF st1.pct
        THEN _update_percentage_mode(st1, minor_classes, preserve_map)
        ELSE _update_absolute_mode(st1, minor_classes,
                                   modified_major_classes, preserve_map)

update_from_minor_change(st, minor_classes) ==
    _apply_minor_change(
        IF /\ ~st.pct
           /\ \E i \in minor_classes :
                  RGt(st.minor[i], RMul(R(st.minor_max), MAX_THRESHOLD))
        THEN update_maximum_values(st).st ELSE st,
        minor_classes, [i \in minor_classes |-> st.minor[i]])

\* update_from_major_change, after _distribute_values.
_apply_major_change(st1, major_class, new_major_value, new_minor_values) ==
    LET minor_classes == minor_classes_of(major_class)
        st2 == [st1 EXCEPT
                   !.minor = [i \in Rows |->
                                 IF i \in minor_classes
                                 THEN new_minor_values[i] ELSE st1.minor[i]]]
        preserve_map ==
            [minor |-> new_minor_values,
             major |-> [m \in {major_class} |-> new_major_value]]
    IN  IF st2.pct
        THEN _update_percentage_mode(st2, minor_classes, preserve_map)
        ELSE _sync_specific(
                 _update_absolute_values(st2, minor_classes, new_minor_values),
                 minor_classes, {major_class}, preserve_map)

\* update_from_major_change, after the maxima were looked at.
_distribute_major_change(st1, major_class, new_major_value) ==
    _apply_major_change(st1, major_class, new_major_value,
        _distribute_values(st1, new_major_value,
                           minor_classes_of(major_class)))

update_from_major_change(st, major_class) ==
    _distribute_major_change(
        IF /\ ~st.pct
           /\ RGt(st.major[major_class],
                  RMul(R(st.major_max), MAX_THRESHOLD))
        THEN update_maximum_values(st).st ELSE st,
        major_class, st.major[major_class])

\* The state after update_maximum_values, and error_data["update_marks"].
_format_output_marks(r, is_percentage_mode) ==
    [st |-> r.st, update_marks |-> r.changed /\ ~is_percentage_mode]

format_output(st) == _format_output_marks(update_maximum_values(st), st.pct)

----------------------------------------------------------------------------
(* Preset transforms (callbacks/scenario.py).  MINE_IMPACT_IN_KM2 is the   *)
(* impact catalogue of data/constants.py.                                  *)

MINE_IMPACT_IN_KM2 ==
    [Upland |-> [Deciduous |-> R(5)], Marsh |-> [Meadow |-> R(30)]]

get_impact(major, minor) ==
    IF major \in DOMAIN MINE_IMPACT_IN_KM2
       /\ minor \in DOMAIN MINE_IMPACT_IN_KM2[major]
    THEN MINE_IMPACT_IN_KM2[major][minor]
    ELSE Zero

\* The rows of the given major classes and minor classes.
Mask(df, majors, minors) ==
    {i \in DOMAIN df : /\ df[i].Land_Cover_Major_Class \in majors
                       /\ df[i].Land_Cover_Minor_Class \in minors}

MaskMajor(df, majors) ==
    {i \in DOMAIN df : df[i].Land_Cover_Major_Class \in majors}

\* new_areas.loc[src] = 0, then new_areas.loc[dst] = total.
ConvertAll(df, new_areas, src, dst) ==
    LET total == PdSum(AtIdx(Area(df), src, 1))
    IN  [i \in DOMAIN df |->
            IF i \in dst THEN total
            ELSE IF i \in src THEN Zero
            ELSE new_areas[i]]

\* if any(src): new_areas.loc[src] = 0, then new_areas.loc[dst] += total.
MoveTo(df, new_areas, src, dst) ==
    IF src = {} THEN new_areas
    ELSE LET total == PdSum(AtIdx(Area(df), src, 1))
             zeroed == [i \in DOMAIN df |->
                           IF i \in src THEN Zero ELSE new_areas[i]]
         IN  [i \in DOMAIN df |->
                 IF i \in dst THEN RAdd(zeroed[i], total) ELSE zeroed[i]]

initial(df) == create_initial_dataframe

habitat_loss(df) ==
    LET impacts == [i \in DOMAIN df |->
                       get_impact(df[i].Land_Cover_Major_Class,
                                  df[i].Land_Cover_Minor_Class)]
        lowered == [i \in DOMAIN df |-> RSub(df[i].Area_km2, impacts[i])]
        new_areas == [i \in DOMAIN df |->
                         IF RLt(lowered[i], Zero) THEN Zero ELSE lowered[i]]
    IN  update_areas(df, new_areas)

\* Variant: Upland rows keep their areas when there is no Upland/Deciduous
\* row to receive them.
_convert_upland_to_deciduous_keeps_when_absent(df, new_areas) ==
    IF Mask(df, {"Upland"}, {"Deciduous"}) = {} THEN new_areas
    ELSE ConvertAll(df, new_areas, MaskMajor(df, {"Upland"}),
                    Mask(df, {"Upland"}, {"Deciduous"}))

_convert_upland_to_deciduous(df, new_areas) ==
    ConvertAll(df, new_areas, MaskMajor(df, {"Upland"}),
               Mask(df, {"Upland"}, {"Deciduous"}))

_convert_wetlands_to_meadow_marsh(df, new_areas) ==
    ConvertAll(df, new_areas, MaskMajor(df, {"Bog", "Fen", "Marsh", "Swamp"}),
               Mask(df, {"Marsh"}, {"Meadow"}))

habitat_enhancement(df) ==
    update_areas(df,
        _convert_wetlands_to_meadow_marsh(df,
            _convert_upland_to_deciduous(df, Area(df))))

\* Variant: only the Shrubby fens are converted.
_convert_rich_fen_to_poor_fen_shrubby_only(df, new_areas) ==
    MoveTo(df, new_areas, Mask(df, {"Fen"}, {"Shrubby Rich"}),
           Mask(df, {"Fen"}, {"Shrubby Poor"}))

_convert_rich_fen_to_poor_fen(df, new_areas) ==
    MoveTo(df,
        MoveTo(df,
            MoveTo(df, new_areas, Mask(df, {"Fen"}, {"Shrubby Rich"}),
                   Mask(df, {"Fen"}, {"Shrubby Poor"})),
            Mask(df, {"Fen"}, {"Treed Rich"}),
            Mask(df, {"Fen"}, {"Treed Poor"})),
        Mask(df, {"Fen"}, {"Graminoid Rich"}),
        Mask(df, {"Fen"}, {"Graminoid Poor"}))

_convert_meadow_marsh_to_upland_meadow(df, new_areas) ==
    MoveTo(df, new_areas, Mask(df, {"Marsh"}, {"Meadow"}),
           Mask(df, {"Upland"}, {"Meadow"}))

short_term_drying(df) ==
    update_areas(df,
        _convert_meadow_marsh_to_upland_meadow(df,
            _convert_rich_fen_to_poor_fen(df, Area(df))))

_convert_fen_to_bog(df, new_areas) ==
    MoveTo(df,
        MoveTo(df,
            MoveTo(df, new_areas,
                   Mask(df, {"Fen"}, {"Shrubby Rich", "Shrubby Poor"}),
                   Mask(df, {"Bog"}, {"Shrubby"})),
            Mask(df, {"Fen"}, {"Treed Rich", "Treed Poor"}),
            Mask(df, {"Bog"}, {"Treed"})),
        Mask(df, {"Fen"}, {"Graminoid Rich", "Graminoid Poor"}),
        Mask(df, {"Bog"}, {"Open"}))

_convert_meadow_marsh_to_upland_deciduous(df, new_areas) ==
    MoveTo(df, new_areas, Mask(df, {"Marsh"}, {"Meadow"}),
           Mask(df, {"Upland"}, {"Deciduous"}))

long_term_drying(df) ==
    update_areas(df,
        _convert_meadow_marsh_to_upland_deciduous(df,
            _convert_fen_to_bog(df, Area(df))))

PresetNames ==
    {"Present Day", "Habitat Loss", "Habitat Enhancement",
     "Short-term Drying", "Long-term Drying",
     "Cumulative Loss and Short-term Drying",
     "Cumulative Loss and Long-term Drying"}

\* get_scenario_function(scenario_name) applied to the dataset.
get_scenario_function(scenario_name, df) ==
    CASE scenario_name = "Present Day" -> initial(df)
      [] scenario_name = "Habitat Loss" -> habitat_loss(df)
      [] scenario_name = "Habitat Enhancement" -> habitat_enhancement(df)
      [] scenario_name = "Short-term Drying" -> short_term_drying(df)
      [] scenario_name = "Long-term Drying" -> long_term_drying(df)
      [] scenario_name = "Cumulative Loss and Short-term Drying" ->
             short_term_drying(habitat_loss(df))
      [] scenario_name = "Cumulative Loss and Long-term Drying" ->
             long_term_drying(habitat_loss(df))

----------------------------------------------------------------------------
(* The callbacks of callbacks/table_view.py as functions of their inputs   *)
(* and of the component properties they read as State.  A result is the    *)
(* record of the properties the callback writes; a property the callback   *)
(* leaves at no_update keeps the value it has.                             *)

Models == {"Nutritional Maximum", "Behaviour Restricted"}

\* pandas' Series.max(): the NaN cells are left out.
PdMax(s) ==
    LET finite == {i \in DOMAIN s : ~IsNaN(s[i])}
    IN  IF finite = {} THEN NaN
        ELSE s[CHOOSE i \in finite : \A j \in finite : RLe(s[j], s[i])]

_calculate_major_class_values(data, is_percentage) ==
    LET total_area_ == PySum(Area(data))
    IN  [m \in Majors |->
            LET class_sum == PySum(AtIdx(Area(data), minor_classes_of(m), 1))
            IN  IF is_percentage
                THEN (IF RGt(total_area_, Zero)
                      THEN RMul(RDiv(class_sum, total_area_), Hundred)
                      ELSE Zero)
                ELSE class_sum]

_calculate_adaptive_slider_maximums(data) ==
    LET max_value_in_data == PdMax(Area(data))
        major_class_sums ==
            [m \in Majors |-> PdSum(AtIdx(Area(data), minor_classes_of(m), 1))]
        max_major_in_data == PdMax(major_class_sums)
        minor0 == SLIDER_MAX_VALUES.minor_sliders
        major0 == SLIDER_MAX_VALUES.major_sliders
    IN  [major |-> IF RGt(max_major_in_data, RMul(R(major0), <<9, 10>>))
                   THEN NeededMax(max_major_in_data) ELSE major0,
         minor |-> IF RGt(max_value_in_data, RMul(R(minor0), <<9, 10>>))
                   THEN NeededMax(max_value_in_data) ELSE minor0]

\* The outputs of update_slider_mode, from the maxima on.
_slider_mode_outputs(checked, table_data, total_area_, maxes) ==
    IF checked
    THEN [major_max |-> 100, minor_max |-> 100,
          minor |-> [i \in DOMAIN table_data |->
                        RMul(RDiv(table_data[i].Area_km2, total_area_),
                             Hundred)],
          major |-> _calculate_major_class_values(table_data, TRUE)]
    ELSE [major_max |-> maxes.major, minor_max |-> maxes.minor,
          minor |-> Area(table_data),
          major |-> _calculate_major_class_values(table_data, FALSE)]

update_slider_mode(checked, table_data) ==
    _slider_mode_outputs(checked, table_data, PySum(Area(table_data)),
                         _calculate_adaptive_slider_maximums(table_data))

\* The table rows and the scenario display rows of the selected model.
update_density_model(model, table_data, scenarios_table_data, stored_scenarios) ==
    [table |->
         [i \in DOMAIN table_data |->
             [table_data[i] EXCEPT
                 !.Mean_Bison_Density =
                     IF model = "Nutritional Maximum"
                     THEN table_data[i].Mean_Bison_Density_NM
                     ELSE table_data[i].Mean_Bison_Density_BR,
                 !.Maximum_Bison_Supported =
                     IF model = "Nutritional Maximum"
                     THEN table_data[i].Maximum_Bison_Supported_NM
                     ELSE table_data[i].Maximum_Bison_Supported_BR]],
     scenarios |->
         [k \in DOMAIN scenarios_table_data |->
             IF k \notin DOMAIN stored_scenarios THEN scenarios_table_data[k]
             ELSE LET stored == stored_scenarios[k]
                  IN  [scenarios_table_data[k] EXCEPT
                          !.total_bison =
                              IF model = "Nutritional Maximum"
                              THEN stored.total_bison_NM
                              ELSE stored.total_bison_BR,
                          !.change_from_previous =
                              IF model = "Nutritional Maximum"
                              THEN stored.change_from_previous_NM
                              ELSE stored.change_from_previous_BR,
                          !.change_from_first =
                              IF model = "Nutritional Maximum"
                              THEN stored.change_from_first_NM
                              ELSE stored.change_from_first_BR]]]

_initialize_slider_state(bison_data, minor, major, checked, current_major_slider_max, current_minor_slider_max) ==
    [SliderState(bison_data, minor, major, checked) EXCEPT
        !.major_max = current_major_slider_max,
        !.minor_max = current_minor_slider_max]

_handle_table_update(st, previous_data, stored_scenarios, model) ==
    sync([st EXCEPT !.df =
             calculate_changes_from_scenario(
                 update_from_table(st.df, st.df, previous_data),
                 stored_scenarios, model)],
         NoPreserve)

\* stored_scenarios[selected_rows[0]] raises IndexError past the end.
_handle_scenario_load(st, clicks, selected, stored_scenarios, model) ==
    IF clicks # 0 /\ selected # <<>> /\ stored_scenarios # <<>>
    THEN IF selected[1] + 1 \in DOMAIN stored_scenarios
         THEN sync([st EXCEPT !.df =
                       update_from_scenario(
                           stored_scenarios[selected[1] + 1].data, model)],
                   NoPreserve)
         ELSE [st EXCEPT !.err = TRUE]
    ELSE st

\* table.calculate_changes_from_scenario on the dataset of the state.
_calculate_changes(st1, stored_scenarios, model) ==
    [st1 EXCEPT !.df =
        calculate_changes_from_scenario(st1.df, stored_scenarios, model)]

_handle_slider_change(st, trigger_id, stored_scenarios, model) ==
    _calculate_changes(
        IF trigger_id.type = "major-slider"
        THEN update_from_major_change(st, trigger_id.index)
        ELSE update_from_minor_change(st, {trigger_id.index}),
        stored_scenarios, model)

_process_trigger_event(trigger_id, st, previous_data, stored_scenarios, clicks, selected, model) ==
    IF trigger_id.type = "table"
    THEN _handle_table_update(st, previous_data, stored_scenarios, model)
    ELSE IF trigger_id.type = "load-scenario-button"
    THEN _handle_scenario_load(st, clicks, selected, stored_scenarios, model)
    ELSE _handle_slider_change(st, trigger_id, stored_scenarios, model)

\* Variant: the flag is left as it is.
_get_no_update_response_keeps_flag(minor, major, table_data, flag) ==
    [minor |-> minor, major |-> major, table |-> table_data,
     flag |-> mode_change_in_progress, major_max |-> major_max,
     minor_max |-> minor_max, raised |-> FALSE]

\* Every output left at no_update: the properties keep the values the
\* browser holds, and the flag is written.
_get_no_update_response(minor, major, table_data, flag) ==
    [minor |-> minor, major |-> major, table |-> table_data,
     flag |-> flag, major_max |-> major_max, minor_max |-> minor_max,
     raised |-> FALSE]

\* The outputs, from the result of format_output.
_callback_output(out, checked) ==
    [minor |-> out.st.minor, major |-> out.st.major, table |-> out.st.df,
     flag |-> FALSE,
     major_max |-> IF ~checked /\ out.update_marks
                   THEN out.st.major_max ELSE major_max,
     minor_max |-> IF ~checked /\ out.update_marks
                   THEN out.st.minor_max ELSE minor_max,
     raised |-> out.st.err]

_prepare_callback_output(st, checked) ==
    _callback_output(format_output(st), checked)

\* A callback that raises writes no output.
_outputs_unless_raised(out, minor_slider_values, major_slider_values, table_data) ==
    IF out.raised
    THEN [_get_no_update_response(minor_slider_values, major_slider_values,
                                  table_data, mode_change_in_progress)
             EXCEPT !.raised = TRUE]
    ELSE out

\* Variant: the guard flag is not looked at.
update_application_state_unguarded(trigger_id, minor_slider_values, major_slider_values, clicks, table_data) ==
    IF trigger_id.type = "proportional-checkbox"
    THEN _get_no_update_response(minor_slider_values, major_slider_values,
                                 table_data, mode_change_in_progress)
    ELSE _outputs_unless_raised(
             _prepare_callback_output(
                 _process_trigger_event(trigger_id,
                     _initialize_slider_state(table_data,
                         minor_slider_values, major_slider_values,
                         is_proportional_checked, major_max, minor_max),
                     previous_table_data, scenarios_storage, clicks,
                     selected_rows, model_type),
                 is_proportional_checked),
             minor_slider_values, major_slider_values, table_data)

\* PreventUpdate, like an exception, writes no output.
update_application_state(trigger_id, minor_slider_values, major_slider_values, clicks, table_data) ==
    IF mode_change_in_progress
    THEN _get_no_update_response(minor_slider_values, major_slider_values,
                                 table_data, FALSE)
    ELSE IF trigger_id.type = "proportional-checkbox"
    THEN _get_no_update_response(minor_slider_values, major_slider_values,
                                 table_data, mode_change_in_progress)
    ELSE _outputs_unless_raised(
             _prepare_callback_output(
                 _process_trigger_event(trigger_id,
                     _initialize_slider_state(table_data,
                         minor_slider_values, major_slider_values,
                         is_proportional_checked, major_max, minor_max),
                     previous_table_data, scenarios_storage, clicks,
                     selected_rows, model_type),
                 is_proportional_checked),
             minor_slider_values, major_slider_values, table_data)

\* The display rows and the store with one snapshot appended.
_append_scenario(existing_scenarios, stored_scenarios, full) ==
    [display |-> Append(existing_scenarios, Display(full)),
     stored |-> Append(stored_scenarios, full)]

_handle_save_scenario(existing_scenarios, stored_scenarios, current_data) ==
    _append_scenario(existing_scenarios, stored_scenarios,
        update_scenarios_data(existing_scenarios, current_data))

_handle_preset_scenario(existing_scenarios, stored_scenarios, current_data, preset_scenario_dropdown) ==
    _append_scenario(existing_scenarios, stored_scenarios,
        [update_scenarios_data(existing_scenarios,
             get_scenario_function(preset_scenario_dropdown, current_data))
            EXCEPT !.description = preset_scenario_dropdown])

\* Variant: no look at whether there is an entry; list.pop() on an empty
\* list raises.
_handle_delete_scenario_unguarded(existing_scenarios, stored_scenarios) ==
    [display |-> SubSeq(existing_scenarios, 1, Len(existing_scenarios) - 1),
     stored |-> SubSeq(stored_scenarios, 1, Len(stored_scenarios) - 1),
     err |-> existing_scenarios = <<>> \/ stored_scenarios = <<>>]

\* Variant: the first entry is the one removed.
_handle_delete_scenario_pops_first(existing_scenarios, stored_scenarios) ==
    IF existing_scenarios # <<>>
    THEN [display |-> Tail(existing_scenarios),
          stored |-> Tail(stored_scenarios), err |-> FALSE]
    ELSE [display |-> existing_scenarios, stored |-> stored_scenarios,
          err |-> FALSE]

\* err: whether the handler raised (it has no statement that can).
_handle_delete_scenario(existing_scenarios, stored_scenarios) ==
    IF existing_scenarios # <<>>
    THEN [display |-> SubSeq(existing_scenarios, 1,
                             Len(existing_scenarios) - 1),
          stored |-> SubSeq(stored_scenarios, 1, Len(stored_scenarios) - 1),
          err |-> FALSE]
    ELSE [display |-> existing_scenarios, stored |-> stored_scenarios,
          err |-> FALSE]

----------------------------------------------------------------------------
(* The state after the page layout is built. *)

Trigger(type, index) == [type |-> type, index |-> index]
NoTrigger == Trigger("none", 0)

\* The last operation: its name, its inputs (fixed indices, values, the
\* current and previous rows of a table edit) and the dataset it started on.
\* Of a user event: the row or slider and the value, the slider values and
\* the scenario store before the event, and the dataset before the event.
Last(op, fixed, values, cur, prev, pre) ==
    [op |-> op, fixed |-> fixed, values |-> values, cur |-> cur,
     prev |-> prev, pre |-> pre]

\* components/scenario.py: the store and the scenarios table start with the
\* snapshot of the canonical table.
InitialScenarios(first) ==
    /\ scenarios_table = <<Display(first)>>
    /\ scenarios_storage = <<first>>

Init ==
    LET df == create_initial_dataframe
    IN  /\ table = df
        /\ previous_table_data = df
        /\ minor_values = Pct(df)
        /\ major_values =
               [m \in Majors |-> PdSum(AtIdx(Pct(df), minor_classes_of(m), 1))]
        /\ minor_max = 100
        /\ major_max = 100
        /\ is_proportional_checked = TRUE
        /\ mode_change_in_progress = FALSE
        /\ model_type = "Nutritional Maximum"
        /\ InitialScenarios([update_scenarios_data(<<>>, df)
                                EXCEPT !.description = "Present Day"])
        /\ selected_rows = <<>>
        /\ load_clicks = 0
        /\ pending = NoTrigger
        /\ raised = FALSE
        /\ events = 0
        /\ last = Last("init", {}, None, <<>>, <<>>, <<>>)

app_vars == <<previous_table_data, minor_values, major_values, minor_max,
              major_max, is_proportional_checked, mode_change_in_progress,
              model_type, scenarios_table, scenarios_storage, selected_rows,
              load_clicks, pending, raised, events>>

----------------------------------------------------------------------------
(* The dataset's operations called directly, one call per step, on the    *)
(* dataset the table holds.  update_percentages and update_from_table are  *)
(* called on a dataset that update_areas has just written (or on the       *)
(* canonical one); update_areas is called on every dataset that results.   *)

AreaValues == {0, 10}
PctValues == {0, 25, 75}
AreaVectors == [Rows -> {R(v) : v \in AreaValues}]
PctVectors == [Rows -> {R(v) : v \in PctValues}]

\* The exploration keeps the areas on a finite grid.
Bounded(df) ==
    \A i \in DOMAIN df :
        LET a == df[i].Area_km2
        IN  IsFinite(a) => a[2] <= MaxDen /\ Abs(a[1]) <= MaxArea * a[2]

CallUpdateAreas ==
    \E A \in AreaVectors :
        /\ table' = update_areas(table, A)
        /\ last' = Last("update_areas", {}, A, <<>>, <<>>, <<>>)
        /\ UNCHANGED app_vars

\* update_areas(dataset.area_km2): the dataset's own areas written back.
CallUpdateAreasSame ==
    /\ last.op # "update_areas_same"
    /\ table' = update_areas(table, Area(table))
    /\ last' = Last("update_areas_same", {}, Area(table), <<>>, <<>>, table)
    /\ UNCHANGED app_vars

Fresh == last.op \in {"init", "update_areas"}

CallUpdatePercentages ==
    \E F \in SUBSET Rows, V \in PctVectors \cup {None} :
        /\ Fresh
        /\ Bounded(update_percentages(table, F, V))
        /\ table' = update_percentages(table, F, V)
        /\ last' = Last("update_percentages", F, V, <<>>, <<>>, table)
        /\ UNCHANGED app_vars

\* One table edit: at most one area cell and one percentage cell retyped
\* (NaN is a cell left blank).
EditValues == {NaN, R(0), R(20)}
PctEditValues == {NaN, R(75)}
Edits ==
    {[row |-> 0, col |-> "none", value |-> Zero]}
    \cup [row : Rows, col : {"Area_km2"}, value : EditValues]
    \cup [row : Rows, col : {"Area_percentage"}, value : PctEditValues]

ApplyEdit(df, e) ==
    IF e.col = "Area_km2"
    THEN [df EXCEPT ![e.row].Area_km2 = e.value]
    ELSE IF e.col = "Area_percentage"
    THEN [df EXCEPT ![e.row].Area_percentage = e.value]
    ELSE df

CallUpdateFromTable ==
    \E e1 \in Edits, e2 \in Edits, emptyCur \in BOOLEAN, emptyPrev \in BOOLEAN :
        LET edited == ApplyEdit(ApplyEdit(table, e1), e2)
            cur == IF emptyCur THEN <<>> ELSE edited
            prev == IF emptyPrev THEN <<>> ELSE table
            new == update_from_table(edited, cur, prev)
        IN  /\ Fresh
            /\ e1.col # "Area_percentage"
            /\ e2.col # "Area_km2"
            /\ ~(emptyCur /\ emptyPrev)
            /\ Bounded(new)
            /\ table' = new
            /\ last' = Last("update_from_table", {}, None, cur, prev, edited)
            /\ UNCHANGED app_vars

NextDataset ==
    \/ CallUpdateAreas
    \/ CallUpdateAreasSame
    \/ CallUpdatePercentages
    \/ CallUpdateFromTable

SpecDataset == Init /\ [][NextDataset]_vars

----------------------------------------------------------------------------
(* The application: one action per user event, each with the callback it   *)
(* triggers, and one action for the callback Dash runs next when a         *)
(* callback has written a property that is another callback's Input.       *)

\* One table edit retypes one cell of an editable column (NaN: left blank).
TableAreaValues == {NaN, R(10)}
TablePctValues == {NaN, R(75)}
TableEdits ==
    [row : Rows, col : {"Area_km2"}, value : TableAreaValues]
    \cup [row : Rows, col : {"Area_percentage"}, value : TablePctValues]

\* The positions a slider is dragged to.
SliderEditValues == {R(0), R(20)}

\* The slider values the browser holds.
Sliders == [minor |-> minor_values, major |-> major_values]

\* The exploration goes on from the datasets of whole areas.
WholeAreas(df) ==
    \A i \in DOMAIN df :
        LET a == df[i].Area_km2
        IN  IsFinite(a) => a[2] = 1 /\ Abs(a[1]) <= MaxArea

\* The user acts when no callback is waiting, a bounded number of times.
UserTurn ==
    /\ pending = NoTrigger
    /\ events < MaxEvents
    /\ WholeAreas(table)
    /\ events' = events + 1

\* The user retypes a cell of the table.
TableEdit ==
    \E e \in TableEdits :
        /\ UserTurn
        /\ table[e.row][e.col] # e.value
        /\ table' = ApplyEdit(table, e)
        /\ pending' = Trigger("table", 0)
        /\ last' = Last("table_edit", {e.row}, e.value, Sliders,
                     scenarios_storage, table)
        /\ UNCHANGED <<previous_table_data, minor_values, major_values,
                       minor_max, major_max, is_proportional_checked,
                       mode_change_in_progress, model_type, scenarios_table,
                       scenarios_storage, selected_rows, load_clicks, raised>>

\* The user drags a minor slider.
MinorEdit ==
    \E i \in Rows, v \in SliderEditValues :
        /\ UserTurn
        /\ minor_values[i] # v
        /\ RLe(v, R(minor_max))
        /\ minor_values' = [minor_values EXCEPT ![i] = v]
        /\ pending' = Trigger("slider", i)
        /\ last' = Last("minor_edit", {i}, v, Sliders,
                     scenarios_storage, table)
        /\ UNCHANGED <<table, previous_table_data, major_values, minor_max,
                       major_max, is_proportional_checked,
                       mode_change_in_progress, model_type, scenarios_table,
                       scenarios_storage, selected_rows, load_clicks, raised>>

\* The user drags a major slider.
MajorEdit ==
    \E m \in Majors, v \in SliderEditValues :
        /\ UserTurn
        /\ major_values[m] # v
        /\ RLe(v, R(major_max))
        /\ major_values' = [major_values EXCEPT ![m] = v]
        /\ pending' = Trigger("major-slider", m)
        /\ last' = Last("major_edit", {m}, v, Sliders,
                     scenarios_storage, table)
        /\ UNCHANGED <<table, previous_table_data, minor_values, minor_max,
                       major_max, is_proportional_checked,
                       mode_change_in_progress, model_type, scenarios_table,
                       scenarios_storage, selected_rows, load_clicks, raised>>

\* The user clicks the load button.
LoadClick ==
    /\ UserTurn
    /\ load_clicks' = load_clicks + 1
    /\ pending' = Trigger("load-scenario-button", 0)
    /\ last' = Last("load", {}, None, Sliders, scenarios_storage, table)
    /\ UNCHANGED <<table, previous_table_data, minor_values, major_values,
                   minor_max, major_max, is_proportional_checked,
                   mode_change_in_progress, model_type, scenarios_table,
                   scenarios_storage, selected_rows, raised>>

\* The user selects a row of the scenarios table (no callback listens).
SelectRow ==
    \E k \in 0..(Len(scenarios_table) - 1) :
        /\ UserTurn
        /\ selected_rows # <<k>>
        /\ selected_rows' = <<k>>
        /\ last' = Last("select_row", {}, None, Sliders, scenarios_storage, table)
        /\ UNCHANGED <<table, previous_table_data, minor_values,
                       major_values, minor_max, major_max,
                       is_proportional_checked, mode_change_in_progress,
                       model_type, scenarios_table, scenarios_storage,
                       load_clicks, pending, raised>>

\* The properties update_slider_mode writes.
WriteSliderMode(out) ==
    /\ minor_values' = out.minor
    /\ major_values' = out.major
    /\ minor_max' = out.minor_max
    /\ major_max' = out.major_max
    /\ mode_change_in_progress' = TRUE

\* The user ticks or unticks the checkbox: update_slider_mode runs, and
\* update_application_state is to run on the values it wrote.
ToggleMode ==
    /\ UserTurn
    /\ is_proportional_checked' = ~is_proportional_checked
    /\ WriteSliderMode(update_slider_mode(~is_proportional_checked, table))
    /\ pending' = Trigger("proportional-checkbox", 0)
    /\ raised' = FALSE
    /\ last' = Last("toggle_mode", {}, None, Sliders,
                     scenarios_storage, table)
    /\ UNCHANGED <<table, previous_table_data, model_type, scenarios_table,
                   scenarios_storage, selected_rows, load_clicks>>

\* The properties update_density_model writes.
WriteDensityModel(out) ==
    /\ table' = out.table
    /\ scenarios_table' = out.scenarios
    /\ mode_change_in_progress' = TRUE

\* The user picks the other density model: update_density_model runs, and
\* update_application_state is to run on the table it wrote.
SwitchModel ==
    \E model \in Models \ {model_type} :
        /\ UserTurn
        /\ model_type' = model
        /\ WriteDensityModel(update_density_model(model, table,
                                 scenarios_table, scenarios_storage))
        /\ pending' = Trigger("table", 0)
        /\ raised' = FALSE
        /\ last' = Last("switch_model", {}, None, Sliders, scenarios_storage, table)
        /\ UNCHANGED <<previous_table_data, minor_values, major_values,
                       minor_max, major_max, is_proportional_checked,
                       scenarios_storage, selected_rows, load_clicks>>

\* The properties update_scenarios writes when it appends a snapshot: the
\* snapshot is selected and the load button is clicked for the user.
WriteAppended(out) ==
    /\ scenarios_table' = out.display
    /\ scenarios_storage' = out.stored
    /\ load_clicks' = 1
    /\ selected_rows' = <<Len(out.stored) - 1>>
    /\ pending' = Trigger("load-scenario-button", 0)

\* update_scenarios on the save button.
SaveScenario ==
    /\ UserTurn
    /\ Len(scenarios_storage) < MaxScenarios
    /\ WriteAppended(_handle_save_scenario(scenarios_table,
                         scenarios_storage, table))
    /\ raised' = FALSE
    /\ last' = Last("save", {}, None, Sliders, scenarios_storage, table)
    /\ UNCHANGED <<table, previous_table_data, minor_values, major_values,
                   minor_max, major_max, is_proportional_checked,
                   mode_change_in_progress, model_type>>

\* update_scenarios on the preset button, with the dropdown's preset.
CreatePreset ==
    \E name \in PresetNames :
        /\ UserTurn
        /\ Len(scenarios_storage) < MaxScenarios
        /\ WriteAppended(_handle_preset_scenario(scenarios_table,
                             scenarios_storage, table, name))
        /\ raised' = FALSE
        /\ last' = Last("preset", {}, name, Sliders, scenarios_storage, table)
        /\ UNCHANGED <<table, previous_table_data, minor_values,
                       major_values, minor_max, major_max,
                       is_proportional_checked, mode_change_in_progress,
                       model_type>>

\* The properties update_scenarios writes when it deletes: the selection
\* and the click count are left as they are.
WriteDeleted(out) ==
    /\ scenarios_table' = IF out.err THEN scenarios_table ELSE out.display
    /\ scenarios_storage' = IF out.err THEN scenarios_storage ELSE out.stored
    /\ raised' = out.err

\* update_scenarios on the delete button.
DeleteLast ==
    /\ UserTurn
    /\ WriteDeleted(_handle_delete_scenario(scenarios_table,
                                            scenarios_storage))
    /\ last' = Last("delete_last", {}, None, Sliders, scenarios_storage, table)
    /\ UNCHANGED <<table, previous_table_data, minor_values, major_values,
                   minor_max, major_max, is_proportional_checked,
                   mode_change_in_progress, model_type, selected_rows,
                   load_clicks, pending>>

\* The properties update_application_state writes.
WriteApplicationState(out) ==
    /\ table' = out.table
    /\ minor_values' = out.minor
    /\ major_values' = out.major
    /\ minor_max' = out.minor_max
    /\ major_max' = out.major_max
    /\ mode_change_in_progress' = out.flag
    /\ raised' = out.raised

\* The Inputs that changed when update_application_state runs: after the
\* checkbox was ticked, the checkbox and every slider value that
\* update_slider_mode wrote; callback_context.triggered_id is one of them.
Triggered(trigger) ==
    IF trigger.type = "proportional-checkbox"
    THEN {trigger} \cup {Trigger("slider", i) : i \in Rows}
                   \cup {Trigger("major-slider", m) : m \in Majors}
    ELSE {trigger}

\* update_application_state runs on the property that was written, by the
\* user or by another callback.
UpdateApplicationState ==
    /\ pending # NoTrigger
    /\ \E trigger_id \in Triggered(pending) :
           WriteApplicationState(
               update_application_state(trigger_id, minor_values,
                                        major_values, load_clicks, table))
    /\ pending' = NoTrigger
    /\ UNCHANGED <<previous_table_data, is_proportional_checked, model_type,
                   scenarios_table, scenarios_storage, selected_rows,
                   load_clicks, events, last>>

Next ==
    \/ TableEdit
    \/ MinorEdit
    \/ MajorEdit
    \/ LoadClick
    \/ SelectRow
    \/ ToggleMode
    \/ SwitchModel
    \/ SaveScenario
    \/ CreatePreset
    \/ DeleteLast
    \/ UpdateApplicationState

Spec == Init /\ [][Next]_vars

----------------------------------------------------------------------------
(* The change computations called directly, once each, on inputs drawn     *)
(* from a small set: calculate_changes_from_scenario on a dataset against  *)
(* a store, and update_scenarios_data on a dataset against the display     *)
(* rows of a store.  The areas make a value meet 0, itself, a value less   *)
(* than a thousandth away and a value further away; the store is empty or  *)
(* holds one or two snapshots, taken under either density model.           *)

ChangeAreas == {0, 2000, 2001, 2400, 3000}
ChangeData(a, b, model) ==
    update_from_scenario(
        update_areas(create_initial_dataframe, <<R(a), R(b), R(0)>>), model)

\* The store of one snapshot, and of a second one when entries is 2.
ChangeStoreOf(s1, data2, entries) ==
    IF entries = 1 THEN <<s1>>
    ELSE <<s1, update_scenarios_data(<<Display(s1)>>, data2)>>

\* The store of no, one or two snapshots.
ChangeStore(data1, data2, entries) ==
    IF entries = 0 THEN <<>>
    ELSE ChangeStoreOf(update_scenarios_data(<<>>, data1), data2, entries)

DisplayRows(stored) == [k \in DOMAIN stored |-> Display(stored[k])]

ChangeInputs ==
    [a : ChangeAreas, a1 : ChangeAreas, a2 : ChangeAreas, b : {0, 10},
     entries : 0..2, model : Models, stored_model : Models]

WriteChanges(data, stored, model) ==
    /\ table' = calculate_changes_from_scenario(data, stored, model)
    /\ model_type' = model
    /\ scenarios_storage' = stored
    /\ scenarios_table' = DisplayRows(stored)

CallCalculateChanges ==
    \E in \in ChangeInputs :
        /\ last.op = "init"
        /\ WriteChanges(ChangeData(in.a, in.b, in.model),
                        ChangeStore(ChangeData(in.a1, 0, in.stored_model),
                                    ChangeData(in.a2, 0, in.stored_model),
                                    in.entries),
                        in.model)
        /\ last' = Last("calculate_changes", {}, None, <<>>, <<>>, <<>>)
        /\ UNCHANGED <<previous_table_data, minor_values, major_values,
                       minor_max, major_max, is_proportional_checked,
                       mode_change_in_progress, selected_rows, load_clicks,
                       pending, raised, events>>

WriteSnapshot(data, stored, model) ==
    /\ table' = data
    /\ model_type' = model
    /\ scenarios_storage' =
           Append(stored, update_scenarios_data(DisplayRows(stored), data))
    /\ scenarios_table' = DisplayRows(scenarios_storage')

CallUpdateScenariosData ==
    \E in \in ChangeInputs :
        /\ last.op = "init"
        /\ WriteSnapshot(ChangeData(in.a, in.b, in.model),
                         ChangeStore(ChangeData(in.a1, 0, in.stored_model),
                                     ChangeData(in.a2, 0, in.stored_model),
                                     in.entries),
                         in.model)
        /\ last' = Last("snapshot", {}, None, <<>>, <<>>, <<>>)
        /\ UNCHANGED <<previous_table_data, minor_values, major_values,
                       minor_max, major_max, is_proportional_checked,
                       mode_change_in_progress, selected_rows, load_clicks,
                       pending, raised, events>>

NextChanges ==
    \/ CallCalculateChanges
    \/ CallUpdateScenariosData

SpecChanges == Init /\ [][NextChanges]_vars

----------------------------------------------------------------------------
(* The application with the browser's asynchrony: the callbacks run on the *)
(* server and their outputs come back later, so the user can move a slider *)
(* after update_slider_mode or update_density_model has set the            *)
(* mode-change flag and before the update_application_state run that their *)
(* outputs start has returned.  The run started by the move reads the flag *)
(* as State, like the run it overtakes.                                    *)

\* The user drags a minor slider while the follow-up run of a mode toggle or
\* of a density-model switch is still to come.
EarlyMinorEdit ==
    \E i \in Rows, v \in SliderEditValues :
        /\ pending # NoTrigger
        /\ mode_change_in_progress
        /\ events < MaxEvents
        /\ events' = events + 1
        /\ minor_values[i] # v
        /\ RLe(v, R(minor_max))
        /\ minor_values' = [minor_values EXCEPT ![i] = v]
        /\ pending' = Trigger("slider", i)
        /\ last' = Last("minor_edit", {i}, v, Sliders,
                     scenarios_storage, table)
        /\ UNCHANGED <<table, previous_table_data, major_values, minor_max,
                       major_max, is_proportional_checked,
                       mode_change_in_progress, model_type, scenarios_table,
                       scenarios_storage, selected_rows, load_clicks, raised>>

NextRace == Next \/ EarlyMinorEdit

SpecRace == Init /\ [][NextRace]_vars

----------------------------------------------------------------------------
(* The application with the sliders dragged far: in absolute mode the user *)
(* drags a minor slider to 0, to 85% of the sliders' first maximum or to   *)
(* the slider's current maximum, next to the toggles and the small edits   *)
(* of Spec, so that the maxima have to grow.                               *)

AbsoluteDrag ==
    \E i \in Rows, v \in {Zero, R(85), R(minor_max)} :
        /\ pending = NoTrigger
        /\ ~is_proportional_checked
        /\ events < MaxEvents
        /\ events' = events + 1
        /\ minor_values[i] # v
        /\ RLe(v, R(minor_max))
        /\ minor_values' = [minor_values EXCEPT ![i] = v]
        /\ pending' = Trigger("slider", i)
        /\ last' = Last("minor_edit", {i}, v, Sliders,
                     scenarios_storage, table)
        /\ UNCHANGED <<table, previous_table_data, major_values, minor_max,
                       major_max, is_proportional_checked,
                       mode_change_in_progress, model_type, scenarios_table,
                       scenarios_storage, selected_rows, load_clicks, raised>>

NextMaxima ==
    \/ ToggleMode
    \/ MinorEdit
    \/ MajorEdit
    \/ AbsoluteDrag
    \/ UpdateApplicationState

SpecMaxima == Init /\ [][NextMaxima]_vars

----------------------------------------------------------------------------
(* The application from the state a session is in after the user has       *)
(* blanked the three Area_km2 cells of the initial table one after the     *)
(* other (three TableEdit events of Spec, each followed by its             *)
(* UpdateApplicationState): the dataset has total area 0, the sliders are  *)
(* in percentage mode at 0, the store holds the initial snapshot.          *)

ZeroAreaState ==
    LET df == create_initial_dataframe
        first == [update_scenarios_data(<<>>, df)
                     EXCEPT !.description = "Present Day"]
    IN  /\ table = calculate_changes_from_scenario(
                       update_areas(df, [i \in Rows |-> Zero]),
                       <<first>>, "Nutritional Maximum")
        /\ previous_table_data = df
        /\ minor_values = [i \in Rows |-> Zero]
        /\ major_values = [m \in Majors |-> Zero]
        /\ minor_max = 100
        /\ major_max = 100
        /\ is_proportional_checked = TRUE
        /\ mode_change_in_progress = FALSE
        /\ model_type = "Nutritional Maximum"
        /\ InitialScenarios(first)
        /\ selected_rows = <<>>
        /\ load_clicks = 0
        /\ pending = NoTrigger
        /\ raised = FALSE

InitZeroArea ==
    /\ ZeroAreaState
    /\ events = 0
    /\ last = Last("init", {}, None, <<>>, <<>>, <<>>)

SpecZeroArea == InitZeroArea /\ [][Next]_vars

----------------------------------------------------------------------------
(* The preset transforms called directly, once each, on datasets of four   *)
(* land-cover tables: the canonical one, one with neither Upland/Deciduous *)
(* nor Marsh/Meadow, one with wetlands of several classes and one of rich  *)
(* and poor fens.  A dataset is a table with its areas set and a density   *)
(* model selected.                                                         *)

PresetTables ==
    { << Row("Marsh", "Meadow", 0, 6, 2),
         Row("Upland", "Deciduous", 0, 4, 2),
         Row("Upland", "Conifer", 0, 2, 1) >>,
      << Row("Fen", "Shrubby Rich", 0, 3, 1),
         Row("Fen", "Shrubby Poor", 0, 2, 1),
         Row("Bog", "Shrubby", 0, 1, 1),
         Row("Upland", "Conifer", 0, 2, 1) >>,
      << Row("Marsh", "Meadow", 0, 6, 2),
         Row("Swamp", "Conifer", 0, 1, 1),
         Row("Upland", "Meadow", 0, 5, 2),
         Row("Upland", "Deciduous", 0, 4, 2) >>,
      << Row("Fen", "Treed Rich", 0, 2, 1),
         Row("Fen", "Treed Poor", 0, 1, 1),
         Row("Fen", "Graminoid Rich", 0, 5, 2),
         Row("Fen", "Graminoid Poor", 0, 3, 1) >> }

PresetAreaValues == {0, 5, 10}

PresetData(rows, areas, model) ==
    update_from_scenario(update_areas(rows, areas), model)

\* func(bison_data) of _handle_preset_scenario, on one dataset.
CallPreset ==
    \E rows \in PresetTables, model \in Models, name \in PresetNames :
        \E areas \in [DOMAIN rows -> {R(v) : v \in PresetAreaValues}] :
            /\ last.op = "init"
            /\ table' = get_scenario_function(name,
                            PresetData(rows, areas, model))
            /\ model_type' = model
            /\ last' = Last("preset_call", {}, name, <<>>, <<>>,
                            PresetData(rows, areas, model))
            /\ UNCHANGED <<previous_table_data, minor_values, major_values,
                           minor_max, major_max, is_proportional_checked,
                           mode_change_in_progress, scenarios_table,
                           scenarios_storage, selected_rows, load_clicks,
                           pending, raised, events>>

NextPresets == CallPreset

SpecPresets == Init /\ [][NextPresets]_vars

----------------------------------------------------------------------------
(* Properties of the dataset's operations (SpecDataset). *)


NonFixedZero(df, F) ==
    \A i \in DOMAIN df \ F :
        df[i].Area_percentage = Zero /\ df[i].Area_km2 = Zero

\* C3: right after update_areas(A), A non-negative, the percentages sum to
\* 100 when the areas sum to more than 0, and every percentage is 0 when
\* the areas sum to 0.
C3_UpdateAreasPercentages ==
    last.op \in {"update_areas", "update_areas_same"} =>
        /\ RGt(PySum(last.values), Zero) => PySum(Pct(table)) = Hundred
        /\ PySum(last.values) = Zero =>
               \A i \in DOMAIN table : table[i].Area_percentage = Zero

C3_Witness ==
    /\ last.op = "update_areas"
    /\ last.values = <<R(10), R(10), R(0)>>
    /\ Pct(table) = <<R(50), R(50), R(0)>>

\* C4: after update_percentages(fixed = F, values = V) every row of F has
\* exactly the percentage V gives it, whatever F is (all the rows, or rows
\* whose values sum to more than 100).
C4_FixedRowsKeepValue ==
    (last.op = "update_percentages" /\ last.values # None) =>
        \A i \in last.fixed : table[i].Area_percentage = last.values[i]

C4_Witness ==
    /\ last.op = "update_percentages"
    /\ last.fixed = Rows
    /\ last.values = <<R(75), R(75), R(25)>>
    /\ Pct(table) = <<R(75), R(75), R(25)>>
    /\ RGt(total_area(last.pre), Zero)

\* C5 (as claimed): update_areas called with the dataset's own areas leaves
\* every percentage and every bison-supported value as it was, also on a
\* dataset that update_percentages produced.
C5_NoopUpdateAreas ==
    last.op = "update_areas_same" =>
        /\ Pct(table) = Pct(last.pre)
        /\ BisonCur(table) = BisonCur(last.pre)
        /\ BisonNM(table) = BisonNM(last.pre)
        /\ BisonBR(table) = BisonBR(last.pre)

\* C6 (as claimed): update_percentages with no fixed row sets every area to
\* V[i]/100 of the previous total and leaves the total area as it was.
C6_ReprojectKeepsTotal ==
    (last.op = "update_percentages" /\ last.fixed = {}
        /\ last.values # None) =>
        /\ \A i \in DOMAIN table :
               table[i].Area_km2 =
                   RMul(RDiv(last.values[i], Hundred), total_area(last.pre))
        /\ total_area(table) = total_area(last.pre)

\* C6 (amended): update_percentages with no fixed row sets every area to
\* V[i]/100 of the previous total; the total area becomes sum(V)/100 of the
\* previous total, so it is the previous total when V sums to 100.
C6_ReprojectScalesTotal ==
    (last.op = "update_percentages" /\ last.fixed = {}
        /\ last.values # None) =>
        /\ \A i \in DOMAIN table :
               table[i].Area_km2 =
                   RMul(RDiv(last.values[i], Hundred), total_area(last.pre))
        /\ total_area(table) =
               RMul(RDiv(PySum(last.values), Hundred), total_area(last.pre))
        /\ PySum(last.values) = Hundred =>
               total_area(table) = total_area(last.pre)

C6_Witness ==
    /\ last.op = "update_percentages"
    /\ last.fixed = {}
    /\ Area(last.pre) = <<R(10), R(10), R(0)>>
    /\ last.values = <<R(75), R(25), R(0)>>
    /\ Area(table) = <<R(15), R(5), R(0)>>

\* The percentages update_percentages starts from: the ones passed, or the
\* dataset's own.
GivenPct == IF last.values # None THEN last.values ELSE Pct(last.pre)

\* C26: after update_percentages with fixed rows F, F not empty, not all the
\* rows, and holding at most 100 in total, the other rows' percentages sum to
\* 100 minus the total of F; each is its previous percentage scaled by one
\* common ratio, or they are all equal when the previous ones sum to 0.
C26_NonFixedShareRemainder ==
    (/\ last.op = "update_percentages"
     /\ last.fixed # {}
     /\ Rows \ last.fixed # {}
     /\ RLe(PySum(AtIdx(GivenPct, last.fixed, 1)), Hundred)) =>
        LET others == Rows \ last.fixed
            remaining == RSub(Hundred, PySum(AtIdx(GivenPct, last.fixed, 1)))
            before == PySum(AtIdx(GivenPct, others, 1))
        IN  /\ PySum(AtIdx(Pct(table), others, 1)) = remaining
            /\ IF RGt(before, Zero)
               THEN \A i \in others :
                        RMul(table[i].Area_percentage, before)
                            = RMul(GivenPct[i], remaining)
               ELSE \A i, j \in others :
                        table[i].Area_percentage = table[j].Area_percentage

\* Row 1 fixed at 75, the others given 75 and 0: they get 25 and 0.
C26_Witness ==
    /\ last.op = "update_percentages"
    /\ last.fixed = {1}
    /\ last.values = <<R(75), R(75), R(0)>>
    /\ Pct(table) = <<R(75), R(25), R(0)>>
    /\ RGt(total_area(last.pre), Zero)

\* C7: when the fixed rows' percentages sum to more than 100, every row
\* that is not fixed ends with percentage 0 and area 0.
C7_OverBudgetZeroesOthers ==
    (last.op = "update_percentages" /\ last.values # None
        /\ last.fixed # {}
        /\ RGt(PySum(AtIdx(last.values, last.fixed, 1)), Hundred)) =>
        NonFixedZero(table, last.fixed)

C7_Witness ==
    /\ last.op = "update_percentages"
    /\ last.fixed = {1, 2}
    /\ last.values = <<R(75), R(75), R(25)>>
    /\ RGt(total_area(last.pre), Zero)
    /\ Pct(table) = <<R(75), R(75), R(0)>>
    /\ table[3].Area_km2 = Zero

\* The one branch the priority order names for a table edit.
EditBranch(cur, prev) ==
    IF cur = <<>> \/ prev = <<>> THEN "none"
    ELSE IF NullIdx(Area(cur)) # {} THEN "blank_area"
    ELSE IF NullIdx(Pct(cur)) # {} THEN "blank_percentage"
    ELSE IF DiffIdx(Area(cur), Area(prev)) # {} THEN "area"
    ELSE IF DiffIdx(Pct(cur), Pct(prev)) # {} THEN "percentage"
    ELSE "none"

\* C8: update_from_table applies exactly the branch the priority order
\* names (blank area, then blank percentage, then changed area, then
\* changed percentage) and leaves the dataset alone when none applies or a
\* row list is empty.
C8_EditPriority ==
    last.op = "update_from_table" =>
        LET b == EditBranch(last.cur, last.prev)
        IN  table =
              CASE b = "blank_area" ->
                     update_areas(last.pre, FillNa(Area(last.cur)))
                [] b = "blank_percentage" ->
                     update_percentages(last.pre, NullIdx(Pct(last.cur)),
                                        FillNa(Pct(last.cur)))
                [] b = "area" -> update_areas(last.pre, Area(last.cur))
                [] b = "percentage" ->
                     update_percentages(last.pre,
                         DiffIdx(Pct(last.cur), Pct(last.prev)),
                         Pct(last.cur))
                [] OTHER -> last.pre

C8_Witness ==
    /\ last.op = "update_from_table"
    /\ last.prev # <<>> /\ last.cur # <<>>
    /\ IsNaN(last.cur[1].Area_km2)
    /\ IsNaN(last.cur[3].Area_percentage)
    /\ Area(last.prev) = <<R(20), R(10), R(10)>>
    /\ Area(table) = <<R(0), R(10), R(10)>>
    /\ table[3].Area_percentage = R(50)

\* C9 (as claimed): a table edit with a blank percentage cell and no blank
\* area cell is applied by update_percentages with no fixed row.
C9_BlankPercentageNoFixed ==
    (last.op = "update_from_table"
        /\ EditBranch(last.cur, last.prev) = "blank_percentage") =>
        table = update_percentages(last.pre, {}, FillNa(Pct(last.cur)))

\* C9 (amended): a table edit with a blank percentage cell and no blank
\* area cell is applied by update_percentages with the blank rows fixed at
\* 0: the blank rows end at percentage 0 and the other rows are rescaled
\* to share the remaining 100.
C9_BlankPercentageFixed ==
    (last.op = "update_from_table"
        /\ EditBranch(last.cur, last.prev) = "blank_percentage") =>
        LET blank == NullIdx(Pct(last.cur))
            others == AtIdx(FillNa(Pct(last.cur)), Rows \ blank, 1)
        IN  /\ table = update_percentages(last.pre, blank,
                                          FillNa(Pct(last.cur)))
            /\ \A i \in blank : table[i].Area_percentage = Zero
            /\ RGt(PdSum(others), Zero) => PySum(Pct(table)) = Hundred

C9_Witness ==
    /\ last.op = "update_from_table"
    /\ last.prev # <<>> /\ last.cur # <<>>
    /\ Area(last.cur) = <<R(20), R(10), R(10)>>
    /\ Pct(last.cur) = <<NaN, R(25), R(25)>>
    /\ Pct(table) = <<R(0), R(50), R(50)>>
    /\ Area(table) = <<R(0), R(20), R(20)>>

----------------------------------------------------------------------------
(* Properties of the change computations (SpecChanges). *)

\* The change of a value against an old value, as the rule states it.
ExpectedChange(current, old) ==
    IF old = Zero THEN Zero
    ELSE LET c == RDiv(RSub(current, old), old)
         IN  IF RLt(RAbs(c), <<1, 1000>>) THEN Zero ELSE c

\* C10: every change calculate_changes_from_scenario writes in a row and
\* every per-model change update_scenarios_data writes in a snapshot is 0
\* when the old value is 0, 0 when |(current - old) / old| < 0.001, and
\* (current - old) / old otherwise.
C10_ChangeValues ==
    /\ (last.op = "calculate_changes" /\ scenarios_storage # <<>>) =>
           LET n == Len(scenarios_storage)
               current == ModelColumn(table, model_type)
               prev == ModelColumn(scenarios_storage[n].data, model_type)
               first == ModelColumn(scenarios_storage[1].data, model_type)
           IN  \A i \in DOMAIN table :
                   /\ table[i].Change_From_Previous =
                          ExpectedChange(current[i], prev[i])
                   /\ table[i].Change_From_First =
                          ExpectedChange(current[i], first[i])
    /\ (last.op = "snapshot" /\ Len(scenarios_storage) >= 2) =>
           LET n == Len(scenarios_storage)
               new == scenarios_storage[n]
               prev == scenarios_storage[n - 1]
               first == scenarios_storage[1]
           IN  /\ new.change_from_previous_NM =
                      ExpectedChange(new.total_bison_NM, prev.total_bison_NM)
               /\ new.change_from_first_NM =
                      ExpectedChange(new.total_bison_NM, first.total_bison_NM)
               /\ new.change_from_previous_BR =
                      ExpectedChange(new.total_bison_BR, prev.total_bison_BR)
               /\ new.change_from_first_BR =
                      ExpectedChange(new.total_bison_BR, first.total_bison_BR)

\* A snapshot's total of the given density model.
ModelTotal(scenario, model) ==
    IF model = "Nutritional Maximum" THEN scenario.total_bison_NM
    ELSE scenario.total_bison_BR

\* C16: a snapshot taken against an empty store reports 0 for its six
\* changes; against a store with entries it reports, for the current model,
\* the NM model and the BR model, the change of that model's total bison
\* against the same model's total in the store's last entry
\* (change_from_previous) and in the store's first entry (change_from_first).
C16_SnapshotChanges ==
    last.op = "snapshot" =>
        LET n == Len(scenarios_storage)
            new == scenarios_storage[n]
        IN  IF n = 1
            THEN /\ new.change_from_previous = Zero
                 /\ new.change_from_first = Zero
                 /\ new.change_from_previous_NM = Zero
                 /\ new.change_from_first_NM = Zero
                 /\ new.change_from_previous_BR = Zero
                 /\ new.change_from_first_BR = Zero
            ELSE LET prev == scenarios_storage[n - 1]
                     first == scenarios_storage[1]
                 IN  /\ new.change_from_previous =
                            ExpectedChange(new.total_bison,
                                           ModelTotal(prev, model_type))
                     /\ new.change_from_first =
                            ExpectedChange(new.total_bison,
                                           ModelTotal(first, model_type))
                     /\ new.change_from_previous_NM =
                            ExpectedChange(new.total_bison_NM,
                                           prev.total_bison_NM)
                     /\ new.change_from_first_NM =
                            ExpectedChange(new.total_bison_NM,
                                           first.total_bison_NM)
                     /\ new.change_from_previous_BR =
                            ExpectedChange(new.total_bison_BR,
                                           prev.total_bison_BR)
                     /\ new.change_from_first_BR =
                            ExpectedChange(new.total_bison_BR,
                                           first.total_bison_BR)

\* Totals in the ratio 100, 150, 120: the third snapshot, taken under the
\* other density model than the two before it, reports -0.2 and 0.2.
C16_Witness ==
    /\ last.op = "snapshot"
    /\ Len(scenarios_storage) = 3
    /\ model_type = "Behaviour Restricted"
    /\ scenarios_storage[1].total_bison = R(12000)
    /\ scenarios_storage[2].total_bison = R(18000)
    /\ scenarios_storage[1].total_bison_BR = R(4000)
    /\ scenarios_storage[2].total_bison_BR = R(6000)
    /\ scenarios_storage[3].total_bison = R(4800)
    /\ scenarios_storage[3].change_from_previous = <<-1, 5>>
    /\ scenarios_storage[3].change_from_first = <<1, 5>>
    /\ scenarios_storage[3].change_from_previous_NM = <<-1, 5>>
    /\ scenarios_storage[3].change_from_first_NM = <<1, 5>>

C10_Witness ==
    /\ last.op = "calculate_changes"
    /\ Len(scenarios_storage) = 2
    /\ table[1].Area_km2 = R(2001)
    /\ scenarios_storage[1].data[1].Area_km2 = R(2000)
    /\ scenarios_storage[2].data[1].Area_km2 = R(3000)
    /\ table[1].Change_From_First = Zero
    /\ table[1].Change_From_Previous = <<-333, 1000>>
    /\ table[3].Change_From_Previous = Zero

----------------------------------------------------------------------------
(* Properties of the application (Spec). *)

\* The callbacks an event triggered have all run.
Settled == pending = NoTrigger

\* C1 (as claimed): in every reachable state, once the callbacks of the
\* last event have run, the percentages of the table sum to 100 when the
\* areas sum to more than 0, and are all 0 otherwise.
C1_PercentagesSumTo100 ==
    Settled =>
        IF RGt(total_area(table), Zero)
        THEN PySum(Pct(table)) = Hundred
        ELSE \A i \in DOMAIN table : table[i].Area_percentage = Zero

\* C2 (as claimed): in every reachable state, once the callbacks of the
\* last event have run, each row's three bison-supported values are its
\* area times its current, NM and BR density.
C2_BisonIsAreaTimesDensity ==
    Settled =>
        \A i \in DOMAIN table :
            /\ table[i].Maximum_Bison_Supported =
                   RMul(table[i].Area_km2, table[i].Mean_Bison_Density)
            /\ table[i].Maximum_Bison_Supported_NM =
                   RMul(table[i].Area_km2, table[i].Mean_Bison_Density_NM)
            /\ table[i].Maximum_Bison_Supported_BR =
                   RMul(table[i].Area_km2, table[i].Mean_Bison_Density_BR)

\* The values of the minor sliders of major slider m, in slider order.
MinorsOf(m) == AtIdx(minor_values, minor_classes_of(m), 1)

\* C11: when the handler has run on a major slider dragged to T, in either
\* mode, that major slider holds exactly T and its minor sliders sum to T,
\* whatever the minors were before (a positive sum, all zero, or T = 0).
C11_MajorEditDistributes ==
    (Settled /\ last.op = "major_edit") =>
        \A m \in last.fixed :
            /\ major_values[m] = last.values
            /\ PySum(MinorsOf(m)) = last.values

\* A major slider whose minors were all zero dragged to a positive value,
\* in percentage mode: the minors share it evenly.
C11_Witness ==
    /\ Settled
    /\ last.op = "major_edit"
    /\ is_proportional_checked
    /\ ~raised
    /\ \E m \in last.fixed :
           /\ Cardinality(minor_classes_of(m)) = 2
           /\ \A i \in minor_classes_of(m) : last.cur.minor[i] = Zero
           /\ last.values = R(20)
           /\ major_values[m] = R(20)
           /\ \A i \in minor_classes_of(m) : minor_values[i] = R(10)

\* C12: in percentage mode, when the handler has run on a minor or major
\* slider edit, the dataset's total area is what it was before the edit.
C12_PercentageEditKeepsTotal ==
    (Settled /\ last.op \in {"minor_edit", "major_edit"}
        /\ is_proportional_checked) =>
        total_area(table) = total_area(last.pre)

\* A minor slider dragged from 25 to 20 in percentage mode: the areas are
\* redistributed and still sum to 40.
C12_Witness ==
    /\ Settled
    /\ last.op = "minor_edit"
    /\ is_proportional_checked
    /\ last.fixed = {2}
    /\ last.values = R(20)
    /\ Area(last.pre) = <<R(20), R(10), R(10)>>
    /\ Area(table) = <<<<64, 3>>, R(8), <<32, 3>>>>
    /\ total_area(table) = R(40)

\* C13: a mode toggle changes no column of any row of the dataset, neither
\* when update_slider_mode runs nor when the handler it triggers has run.
C13_ToggleKeepsDataset ==
    last.op = "toggle_mode" => table = last.pre

\* A toggle to absolute mode, handler included: the sliders now show the
\* areas and the dataset is the one of before.
C13_Witness ==
    /\ Settled
    /\ last.op = "toggle_mode"
    /\ ~is_proportional_checked
    /\ last.cur.minor = <<R(50), R(25), R(25)>>
    /\ minor_values = <<R(20), R(10), R(10)>>
    /\ Area(table) = <<R(20), R(10), R(10)>>
    /\ table = last.pre

\* C14: when the handler has run on the slider values a mode toggle wrote,
\* nothing was reconciled (the dataset is the one of before the toggle, the
\* slider values and maxima are the ones update_slider_mode wrote) and the
\* guard flag is cleared.
C14_ToggleHandlerSuppressed ==
    (Settled /\ last.op = "toggle_mode") =>
        LET out == update_slider_mode(is_proportional_checked, last.pre)
        IN  /\ table = last.pre
            /\ minor_values = out.minor
            /\ major_values = out.major
            /\ minor_max = out.minor_max
            /\ major_max = out.major_max
            /\ ~mode_change_in_progress

\* A toggle to absolute mode and back, handler included: the sliders show
\* the percentages again and the flag is cleared.
C14_Witness ==
    /\ Settled
    /\ last.op = "toggle_mode"
    /\ events = 2
    /\ is_proportional_checked
    /\ last.cur.minor = <<R(20), R(10), R(10)>>
    /\ minor_values = <<R(50), R(25), R(25)>>
    /\ ~mode_change_in_progress

\* The store's first entry when the session starts.
FirstEntry ==
    [update_scenarios_data(<<>>, create_initial_dataframe)
        EXCEPT !.description = "Present Day"]

\* C15: the store's entry 0 is never removed and never modified: through
\* every save, preset, delete-last, load and density-model switch it is the
\* entry the session started with.
C15_FirstEntryPermanent ==
    /\ Len(scenarios_storage) >= 1
    /\ scenarios_storage[1] = FirstEntry

\* The user events of the application.
UserEvents ==
    {"table_edit", "minor_edit", "major_edit", "load", "select_row",
     "toggle_mode", "switch_model", "save", "preset", "delete_last"}

\* C17: the stored history is a stack.  After a save or a preset it is the
\* history of before with one entry appended; after a delete-last it is the
\* history of before without its last entry; after a load, and after every
\* other event, it is the history of before.
C17_HistoryIsStack ==
    last.op \in UserEvents =>
        LET before == last.prev
        IN  IF last.op \in {"save", "preset"}
            THEN /\ Len(scenarios_storage) = Len(before) + 1
                 /\ SubSeq(scenarios_storage, 1, Len(before)) = before
            ELSE IF last.op = "delete_last" /\ before # <<>>
            THEN scenarios_storage = SubSeq(before, 1, Len(before) - 1)
            ELSE scenarios_storage = before

\* A delete-last on a history of two entries.
C17_Witness ==
    /\ last.op = "delete_last"
    /\ Len(last.prev) = 2
    /\ last.prev[2].description = "Habitat Loss"
    /\ scenarios_storage = <<FirstEntry>>

\* C18: a delete-last on an empty store leaves the store (and the scenarios
\* table) empty and raises no error.
C18_DeleteLastOnEmpty ==
    (last.op = "delete_last" /\ last.prev = <<>>) =>
        /\ scenarios_storage = <<>>
        /\ scenarios_table = <<>>
        /\ ~raised

\* The second of two delete-last clicks on the initial store.
C18_Witness ==
    /\ last.op = "delete_last"
    /\ last.prev = <<>>
    /\ events = 2
    /\ scenarios_storage = <<>>
    /\ ~raised

\* The row of df with the land-cover class of row r, if there is one.
SameClass(df, r) ==
    {j \in DOMAIN df :
        /\ df[j].Land_Cover_Major_Class = r.Land_Cover_Major_Class
        /\ df[j].Land_Cover_Minor_Class = r.Land_Cover_Minor_Class}

\* The percentages and the bison-supported values are the ones of the areas.
Recomputed(df) ==
    /\ df = _update_bison_supported(_update_percentages(df))

\* C19 (as claimed): a preset transform, Present Day included, leaves the
\* current, NM and BR density of every land-cover row as it was, and its
\* result has the percentages and the bison-supported values of its areas.
C19_PresetKeepsDensities ==
    last.op = "preset_call" =>
        /\ \A i \in DOMAIN table : \A j \in SameClass(last.pre, table[i]) :
               /\ table[i].Mean_Bison_Density
                      = last.pre[j].Mean_Bison_Density
               /\ table[i].Mean_Bison_Density_NM
                      = last.pre[j].Mean_Bison_Density_NM
               /\ table[i].Mean_Bison_Density_BR
                      = last.pre[j].Mean_Bison_Density_BR
        /\ Recomputed(table)

\* The total area of the rows of df whose major class is in majors.
ClassTotal(df, majors) ==
    PdSum(AtIdx(Area(df), MaskMajor(df, majors), 1))

Wetlands == {"Bog", "Fen", "Marsh", "Swamp"}

\* C20: Habitat Enhancement gives Upland/Deciduous the total of the previous
\* Upland areas and every other Upland row 0, gives Marsh/Meadow the total of
\* the previous Bog, Fen, Marsh and Swamp areas and every other row of these
\* classes 0, and leaves the other rows' areas alone; without a destination
\* row the class's rows are all 0 and its area is gone.
C20_HabitatEnhancement ==
    (last.op = "preset_call" /\ last.values = "Habitat Enhancement") =>
        /\ DOMAIN table = DOMAIN last.pre
        /\ \A i \in DOMAIN table :
               LET major == last.pre[i].Land_Cover_Major_Class
                   minor == last.pre[i].Land_Cover_Minor_Class
               IN  /\ table[i].Land_Cover_Major_Class = major
                   /\ table[i].Land_Cover_Minor_Class = minor
                   /\ table[i].Area_km2 =
                        IF major = "Upland"
                        THEN IF minor = "Deciduous"
                             THEN ClassTotal(last.pre, {"Upland"})
                             ELSE Zero
                        ELSE IF major \in Wetlands
                        THEN IF major = "Marsh" /\ minor = "Meadow"
                             THEN ClassTotal(last.pre, Wetlands)
                             ELSE Zero
                        ELSE last.pre[i].Area_km2

\* Upland/Deciduous 5, Upland/Conifer 5, Marsh/Meadow 0 become 10, 0, 0.
C20_Witness ==
    /\ last.op = "preset_call"
    /\ last.values = "Habitat Enhancement"
    /\ Len(table) = 3
    /\ \A i \in DOMAIN table :
           LET r == table[i]
               was == last.pre[i].Area_km2
           IN  \/ /\ r.Land_Cover_Major_Class = "Upland"
                  /\ r.Land_Cover_Minor_Class = "Deciduous"
                  /\ was = R(5) /\ r.Area_km2 = R(10)
               \/ /\ r.Land_Cover_Major_Class = "Upland"
                  /\ r.Land_Cover_Minor_Class = "Conifer"
                  /\ was = R(5) /\ r.Area_km2 = Zero
               \/ /\ r.Land_Cover_Major_Class = "Marsh"
                  /\ r.Land_Cover_Minor_Class = "Meadow"
                  /\ was = Zero /\ r.Area_km2 = Zero

\* The total area of the rows of df of one land-cover class.
AreaOf(df, major, minor) ==
    PdSum(AtIdx(Area(df), Mask(df, {major}, {minor}), 1))

FenTypes == {"Shrubby", "Treed", "Graminoid"}

RichFen == [x \in FenTypes |->
               CASE x = "Shrubby" -> "Shrubby Rich"
                 [] x = "Treed" -> "Treed Rich"
                 [] x = "Graminoid" -> "Graminoid Rich"]

PoorFen == [x \in FenTypes |->
               CASE x = "Shrubby" -> "Shrubby Poor"
                 [] x = "Treed" -> "Treed Poor"
                 [] x = "Graminoid" -> "Graminoid Poor"]

\* The area Short-Term Drying is to give a row of class major/minor that had
\* area was in df.
DriedArea(df, major, minor, was) ==
    IF major = "Fen" /\ \E x \in FenTypes : minor = RichFen[x] THEN Zero
    ELSE IF major = "Fen" /\ \E x \in FenTypes : minor = PoorFen[x]
    THEN LET x == CHOOSE y \in FenTypes : minor = PoorFen[y]
         IN  RAdd(was, AreaOf(df, "Fen", RichFen[x]))
    ELSE IF major = "Marsh" /\ minor = "Meadow" THEN Zero
    ELSE IF major = "Upland" /\ minor = "Meadow"
    THEN RAdd(was, AreaOf(df, "Marsh", "Meadow"))
    ELSE was

\* Every class Short-Term Drying empties in df has its destination row.
DryingDestinationsPresent(df) ==
    /\ \A x \in FenTypes :
           Mask(df, {"Fen"}, {RichFen[x]}) # {}
               => Mask(df, {"Fen"}, {PoorFen[x]}) # {}
    /\ Mask(df, {"Marsh"}, {"Meadow"}) # {}
           => Mask(df, {"Upland"}, {"Meadow"}) # {}

\* C21: Short-Term Drying zeroes each Fen "X Rich" row (X Shrubby, Treed or
\* Graminoid) and adds its area to Fen "X Poor", zeroes Marsh/Meadow and adds
\* its area to Upland/Meadow, and leaves every other row's area alone; the
\* total area is the same when every destination row is there.
C21_ShortTermDrying ==
    (last.op = "preset_call" /\ last.values = "Short-term Drying") =>
        /\ DOMAIN table = DOMAIN last.pre
        /\ \A i \in DOMAIN table :
               table[i].Area_km2 =
                   DriedArea(last.pre, last.pre[i].Land_Cover_Major_Class,
                             last.pre[i].Land_Cover_Minor_Class,
                             last.pre[i].Area_km2)
        /\ DryingDestinationsPresent(last.pre)
               => total_area(table) = total_area(last.pre)

\* Treed Rich 5, Treed Poor 10, Graminoid Rich 10, Graminoid Poor 0 become
\* 0, 15, 0, 10.
C21_Witness ==
    /\ last.op = "preset_call"
    /\ last.values = "Short-term Drying"
    /\ AreaOf(last.pre, "Fen", "Treed Rich") = R(5)
    /\ AreaOf(last.pre, "Fen", "Treed Poor") = R(10)
    /\ AreaOf(last.pre, "Fen", "Graminoid Rich") = R(10)
    /\ Mask(last.pre, {"Fen"}, {"Graminoid Poor"}) # {}
    /\ AreaOf(last.pre, "Fen", "Graminoid Poor") = Zero
    /\ AreaOf(table, "Fen", "Treed Rich") = Zero
    /\ AreaOf(table, "Fen", "Treed Poor") = R(15)
    /\ AreaOf(table, "Fen", "Graminoid Rich") = Zero
    /\ AreaOf(table, "Fen", "Graminoid Poor") = R(10)

\* The numeric columns of a table row.
NumericColumns ==
    {"Area_km2", "Area_percentage", "Maximum_Bison_Supported",
     "Maximum_Bison_Supported_NM", "Maximum_Bison_Supported_BR",
     "Change_From_Previous", "Change_From_First"}

\* Every value the callbacks have written is a finite number.
OutputsFinite ==
    /\ \A i \in DOMAIN minor_values : IsFinite(minor_values[i])
    /\ \A m \in DOMAIN major_values : IsFinite(major_values[m])
    /\ \A i \in DOMAIN table : \A c \in NumericColumns : IsFinite(table[i][c])
    /\ \A k \in DOMAIN scenarios_table :
           /\ IsFinite(scenarios_table[k].total_area)
           /\ IsFinite(scenarios_table[k].total_bison)
           /\ IsFinite(scenarios_table[k].change_from_previous)
           /\ IsFinite(scenarios_table[k].change_from_first)

\* The slider values the event found were finite numbers.
FoundFinite ==
    /\ \A i \in DOMAIN last.cur.minor : IsFinite(last.cur.minor[i])
    /\ \A m \in DOMAIN last.cur.major : IsFinite(last.cur.major[m])

\* C22 (as claimed): a table edit, a slider edit, a snapshot or a mode
\* toggle on a dataset of total area 0 (with finite slider values) raises no
\* exception and, once its callbacks have run, has left only finite numbers
\* in the sliders, the table and the scenarios table.
C22_ZeroAreaNoNaN ==
    (/\ Settled
     /\ last.op \in {"table_edit", "minor_edit", "major_edit", "save",
                     "preset", "toggle_mode"}
     /\ total_area(last.pre) = Zero
     /\ FoundFinite) =>
        /\ ~raised
        /\ OutputsFinite

\* The area, percentage and bison-supported columns of the two tables agree.
SameDataset(a, b) ==
    /\ DOMAIN a = DOMAIN b
    /\ \A i \in DOMAIN a :
           \A c \in {"Area_km2", "Area_percentage", "Maximum_Bison_Supported",
                     "Maximum_Bison_Supported_NM",
                     "Maximum_Bison_Supported_BR"} : a[i][c] = b[i][c]

\* C23 (as claimed): in absolute mode, once the callback of a minor slider
\* edit has run, the dataset is the one update_areas gives for the previous
\* areas with the edited row's area replaced by the slider's value.
C23_AbsoluteEditIsUpdateAreas ==
    (Settled /\ last.op = "minor_edit" /\ ~is_proportional_checked) =>
        SameDataset(table,
            update_areas(last.pre,
                [i \in DOMAIN last.pre |->
                    IF i \in last.fixed THEN last.values
                    ELSE last.pre[i].Area_km2]))

\* The column of the table the minor sliders show in the current mode.
Mirrored == IF is_proportional_checked THEN Pct(table) ELSE Area(table)

\* C24 (as claimed): once the callbacks of a table edit, a slider edit, a
\* scenario load or a mode toggle have run, every minor slider's value is its
\* row's Area_percentage in percentage mode and its Area_km2 in absolute
\* mode.
C24_MinorMirrorsDataset ==
    (/\ Settled
     /\ ~raised
     /\ last.op \in {"table_edit", "minor_edit", "major_edit", "load",
                     "toggle_mode"}) =>
        \A i \in Rows : minor_values[i] = Mirrored[i]

\* C25: once the callbacks of a table edit, a slider edit or the load of a
\* selected scenario have run, every major slider's value is the sum of the
\* values of its minor sliders.
C25_MajorIsSumOfMinors ==
    (/\ Settled
     /\ ~raised
     /\ \/ last.op \in {"table_edit", "minor_edit", "major_edit"}
        \/ last.op = "load" /\ selected_rows # <<>>) =>
        \A m \in Majors : major_values[m] = PySum(MinorsOf(m))

\* An absolute-mode minor edit has changed one major slider and left the
\* other alone.
C25_Witness ==
    /\ Settled
    /\ ~raised
    /\ last.op = "minor_edit"
    /\ ~is_proportional_checked
    /\ \E m \in Majors : major_values[m] # last.cur.major[m]
    /\ \E m \in Majors : major_values[m] = last.cur.major[m]
    /\ \A m \in Majors : major_values[m] = PySum(MinorsOf(m))

\* C27 (as claimed): every minor slider move is reconciled, also one made
\* right after a mode toggle or a density-model switch: once the callbacks
\* have run, the slider holds the value it was dragged to and the dataset
\* row shows that value in the column of the current mode.
C27_EditReconciled ==
    (Settled /\ ~raised /\ last.op = "minor_edit") =>
        \A i \in last.fixed : /\ minor_values[i] = last.values
                              /\ Mirrored[i] = last.values

\* One tier's maximum is kept, or has grown to the needed maximum of the
\* tier's highest value, which is then above 80% of the old maximum.
MaxKeptOrGrown(old, new, values) ==
    \/ new = old
    \/ /\ new > old
       /\ RGt(PyMax(values), RMul(R(old), MAX_THRESHOLD))
       /\ new = NeededMax(PyMax(values))

\* C28: in absolute mode a run of update_application_state leaves each
\* tier's slider maximum as it is or, when the tier's highest value is above
\* 80% of it, raises it to ceil(value * 1.1 / 100) * 100; it never lowers it.
C28_MaximaGrowOnly ==
    [][(pending # NoTrigger /\ ~is_proportional_checked) =>
           /\ MaxKeptOrGrown(minor_max, minor_max', minor_values')
           /\ MaxKeptOrGrown(major_max, major_max', major_values')]_vars

\* A minor slider was dragged to its maximum of 100 and the maximum grew to
\* 200; the slider was then dragged back to 0 and the maximum is still 200.
C28_Witness ==
    /\ Settled
    /\ ~raised
    /\ ~is_proportional_checked
    /\ last.op = "minor_edit"
    /\ last.values = Zero
    /\ \E i \in last.fixed : last.cur.minor[i] = R(100)
    /\ minor_max = 200
    /\ RLe(PyMax(minor_values), R(20))

\* C29 (as claimed): when the callback of a click on the load button has
\* run, it has not raised, and the selected row, if there is one and the
\* history is not empty, is an index of the stored scenario history.
C29_LoadIndexValid ==
    (Settled /\ last.op = "load") =>
        /\ ~raised
        /\ (selected_rows # <<>> /\ scenarios_storage # <<>>) =>
               selected_rows[1] + 1 \in DOMAIN scenarios_storage

\* C30 (as claimed): when the user edits the table, the previous-rows
\* snapshot the edit is classified against is the table as the last run of
\* the callbacks left it, that is, the table the user edited.
C30_PreviousRowsCurrent ==
    last.op = "table_edit" => previous_table_data = last.pre

====
